---- MODULE Spec2Model ----
(***************************************************************************)
(* Content-Automation-Agent: the real-data collection pipeline             *)
(* (services/data_collector.py), the snapshot serialisation                *)
(* (CollectedData.to_prompt_context), the smart-script pipeline            *)
(* (crews/smart_script_crew.py) and the /smart-script route                *)
(* (api/routes/agent_routes.py), as one state machine per request.         *)
(*                                                                         *)
(* Text is modelled as sequences: a rendered number is the sequence of its *)
(* characters ("1","5","0",",","0","0","0"), so formatting and parsing are *)
(* computed, not assumed.  average_interest (a float in the code) is held  *)
(* in tenths: 505 stands for 50.5.                                         *)
(***************************************************************************)
EXTENDS Integers, Sequences, FiniteSets, TLC

VARIABLES
    youtube_key,      \* DataCollector.youtube_key is set (YOUTUBE_API_KEY)
    serp_key,         \* DataCollector.serp_key is set (SERP_API_KEY)
    pytrends,         \* PYTRENDS_AVAILABLE
    topic,            \* request.topic
    platform,         \* request.platform
    pc,               \* position of the request in route / run / collect_all
    data,             \* the CollectedData being built by collect_all
    outcome,          \* per provider: the kind of upstream outcome it met
    appended,         \* per provider: error strings its fetch appended
    tasks,            \* Task objects created by SmartScriptCrew.run, in order
    steps,            \* generation steps the crew has started, in order
    exception,        \* the exception propagating out of run, or NoExc
    run_result,       \* the dict returned by SmartScriptCrew.run, or NoRunResult
    response,         \* what the route answered, or NoResponse
    search_items,     \* _fetch_youtube's local `items` between its two requests
    calls,            \* what collect_all has called so far, in order
    tool,             \* the run of a crew tool (tools/*.py)
    invs,             \* collect_all invocations in flight side by side
    heap,             \* the errors list objects of their CollectedData
    http              \* an HTTP request in one of the route handlers (api/routes)

vars == <<youtube_key, serp_key, pytrends, topic, platform, pc, data, outcome,
          appended, tasks, steps, exception, run_result, response, search_items,
          calls,
          tool, invs, heap, http>>

\* the state of the machines of the module: a request, a tool run, the
\* invocations side by side, a route handler
requestVars == <<youtube_key, serp_key, pytrends, topic, platform, pc, data, outcome,
                 appended, tasks, steps, exception, run_result, response,
                 search_items, calls>>
toolVars == <<tool>>
invVars == <<invs, heap>>
httpVars == <<http>>

----------------------------------------------------------------------------
(* Bounds of the model and program constants *)

\* longest phase-1 search result list the upstream is made to return
MaxItems == 2
\* largest current interest value of the trends range check
MaxInterest == 100
\* largest average interest, in tenths, of the trends range check
MaxAvgTenths == 1000
\* longest record list of a snapshot handed to the serialisation check
MaxListLen == 12
\* most posts or tweets an upstream of a crew tool answers with
MaxToolItems == 3
\* most collect_all invocations in flight side by side
MaxInvocations == 2
\* most calls of a tool's _run with the same arguments
MaxCalls == 2
\* most entries of the "related_queries" list an upstream answers with
MaxQueries == 6

\* to_prompt_context: youtube_videos[:10]
VideoCap == 10
\* to_prompt_context: serp_questions[:10]
QuestionCap == 10
\* to_prompt_context: rising_queries[:5]
RisingRenderCap == 5
\* _fetch_trends: .tolist()[:10]
RisingFetchCap == 10

Providers == {"youtube", "trends", "serp"}

NoExc == "NoExc"
NoResponse == [status |-> 0, success |-> FALSE, errors |-> <<>>, detail |-> ""]
\* the text a tool returns: its first heading, its ERROR line ("" if it has
\* none) and the data values it lists
NoText == [heading |-> "", error |-> "", values |-> <<>>]
NoToolRun == [name |-> "none", configured |-> FALSE, pc |-> "idle", requests |-> <<>>,
              upstream |-> <<>>, failed |-> FALSE, result |-> NoText]
NoInvocations == <<>>
NoHttp == [route |-> "none", pc |-> "idle", rapidapi_key |-> FALSE, raised |-> NoExc,
           response |-> NoResponse]
NoRunResult ==
    [returned |-> FALSE, success |-> FALSE, message |-> "", errors |-> <<>>,
     counts |-> <<>>, result |-> <<>>]

Missing == <<"MISSING">>

Topics == {"X"}
Platforms == {"youtube", "Instagram", "tiktok", "newsletter", "podcast"}
Timestamp == "2026-01-15 10:00:00"

----------------------------------------------------------------------------
(* Generic helpers *)

\* the elements of a list
Range(f) == {f[i] : i \in 1..Len(f)}

\* `sub in s` of two strings
Contains(s, sub) ==
    \E i \in 1..(Len(s) - Len(sub) + 1) : SubSeq(s, i, i + Len(sub) - 1) = sub

UpperChars == <<"A", "B", "C", "D", "E", "F", "G", "H", "I", "J", "K", "L", "M",
                "N", "O", "P", "Q", "R", "S", "T", "U", "V", "W", "X", "Y", "Z">>
LowerChars == <<"a", "b", "c", "d", "e", "f", "g", "h", "i", "j", "k", "l", "m",
                "n", "o", "p", "q", "r", "s", "t", "u", "v", "w", "x", "y", "z">>

\* str.lower(), character by character
RECURSIVE str_lower(_)
str_lower(s) ==
    IF s = "" THEN ""
    ELSE LET ch == SubSeq(s, 1, 1)
             low == IF \E i \in 1..26 : UpperChars[i] = ch
                       THEN LowerChars[CHOOSE i \in 1..26 : UpperChars[i] = ch]
                    ELSE ch
         IN  low \o str_lower(SubSeq(s, 2, Len(s)))

RECURSIVE SeqsUpTo(_, _)
SeqsUpTo(S, n) ==
    IF n = 0 THEN {<<>>}
    ELSE LET shorter == SeqsUpTo(S, n - 1)
         IN shorter \cup {Append(s, x) : s \in {t \in shorter : Len(t) = n - 1}, x \in S}

Take(s, n) == SubSeq(s, 1, IF Len(s) < n THEN Len(s) ELSE n)

\* Python truthiness of a list, and `a or b`
Truthy(l) == Len(l) > 0
PyOr(a, b) == IF Truthy(a) THEN a ELSE b

DigitChars == <<"0", "1", "2", "3", "4", "5", "6", "7", "8", "9">>
DigitOf(ch) == (CHOOSE i \in 1..10 : DigitChars[i] = ch) - 1
IsDigit(ch) == \E i \in 1..10 : DigitChars[i] = ch

\* str(n) for n >= 0, as characters
RECURSIVE Str(_)
Str(n) == IF n < 10 THEN <<DigitChars[n + 1]>>
          ELSE Append(Str(n \div 10), DigitChars[(n % 10) + 1])

\* int(s) of the code: a ValueError unless s is an optional sign and digits
IsIntLiteral(s) ==
    /\ s # Missing
    /\ Len(s) > 0
    /\ LET body == IF s[1] = "-" THEN Tail(s) ELSE s
       IN Len(body) > 0 /\ \A i \in 1..Len(body) : IsDigit(body[i])

RECURSIVE DigitsValue(_)
DigitsValue(s) == IF Len(s) = 0 THEN 0
                  ELSE 10 * DigitsValue(SubSeq(s, 1, Len(s) - 1)) + DigitOf(s[Len(s)])

PyInt(s) == IF s[1] = "-" THEN 0 - DigitsValue(Tail(s)) ELSE DigitsValue(s)

----------------------------------------------------------------------------
(* Exceptions: `except Exception` catches every class below *)

ExceptionClasses == {"TimeoutException", "AttributeError", "KeyError",
                     "ValueError", "ResponseError"}

\* a handler that names the network errors only
CatchesOnlyNetworkErrors(e) == e \in {"TimeoutException", "ResponseError"}

CatchesException(e) == e \in ExceptionClasses

----------------------------------------------------------------------------
(* The video provider: upstream responses and DataCollector._fetch_youtube *)

VideoIds == {"a", "b"}
NoVideoId == "NONE"

\* one phase-1 search item: item["id"] with or without "videoId", and
\* item["snippet"] present ("full") or absent ("missing")
SearchItems == [vid : VideoIds \cup {NoVideoId}, snippet : {"full", "missing"}]

\* what GET /youtube/v3/search answers
SearchResponses ==
    {[kind |-> k, items |-> <<>>] : k \in {"timeout", "malformed", "error"}}
    \cup {[kind |-> "ok", items |-> s] : s \in SeqsUpTo(SearchItems, MaxItems)}

\* one id's entry of the phase-2 response: entry is "absent" (no item for
\* the id), "nostats" (an item with no "statistics" key) or "stats"
RawOk == [entry |-> "stats", viewCount |-> <<"1", "5", "0", "0", "0", "0">>,
          likeCount |-> <<"1", "2", "0", "0">>]
RawNoCounts == [entry |-> "stats", viewCount |-> Missing, likeCount |-> Missing]
RawMalformed == [entry |-> "stats", viewCount |-> <<"a", "b", "c">>, likeCount |-> <<"7">>]
RawAbsent == [entry |-> "absent", viewCount |-> Missing, likeCount |-> Missing]
RawNoStats == [entry |-> "nostats", viewCount |-> Missing, likeCount |-> Missing]

StatEntries == {RawAbsent, RawNoStats, RawOk, RawNoCounts, RawMalformed}

\* what GET /youtube/v3/videos answers; an error payload carries no items
StatsResponses ==
    {[kind |-> k, entries |-> [v \in VideoIds |-> RawAbsent]] : k \in {"timeout", "error"}}
    \cup {[kind |-> "ok", entries |-> f] : f \in [VideoIds -> StatEntries]}

SnippetOf(v) == [title |-> "Title " \o v, channelTitle |-> "Channel " \o v,
                 publishedAt |-> <<"2024-01-15", "T10:00:00Z">>]

\* int(stats.get(key, 0)): the default 0, or int() of the upstream text
CountOf(raw) == IF raw = Missing THEN 0 ELSE PyInt(raw)
CountRaises(raw) == raw # Missing /\ ~IsIntLiteral(raw)

YouTubeVideo(v, stats) ==
    [title |-> SnippetOf(v).title,
     video_id |-> v,
     channel_name |-> SnippetOf(v).channelTitle,
     view_count |-> CountOf(stats.viewCount),
     like_count |-> CountOf(stats.likeCount),
     publish_date |-> SnippetOf(v).publishedAt[1],
     url |-> "https://youtube.com/watch?v=" \o v]

\* lines 179-198: the merge loop; the first raising item ends it
RECURSIVE BuildVideos(_, _, _)
BuildVideos(items, entries, acc) ==
    IF items = <<>> THEN [exc |-> NoExc, ret |-> acc]
    ELSE LET item == Head(items)
             stats == entries[item.vid]
         IN IF item.vid = NoVideoId THEN BuildVideos(Tail(items), entries, acc)
            ELSE IF item.snippet = "missing" THEN [exc |-> "KeyError", ret |-> <<>>]
            ELSE IF CountRaises(stats.viewCount) \/ CountRaises(stats.likeCount)
                 THEN [exc |-> "ValueError", ret |-> <<>>]
            ELSE BuildVideos(Tail(items), entries,
                             Append(acc, YouTubeVideo(item.vid, stats)))

\* lines 136-198, the body of the try block
YoutubeTry(query, search, stats) ==
    LET items == search.items
        video_ids == SelectSeq(items, LAMBDA it : it.vid # NoVideoId)
        requested == {video_ids[i].vid : i \in 1..Len(video_ids)}
    IN  IF search.kind = "timeout"
            THEN [exc |-> "TimeoutException", ret |-> <<>>, err |-> <<>>]
        ELSE IF search.kind = "malformed"
            THEN [exc |-> "AttributeError", ret |-> <<>>, err |-> <<>>]
        ELSE IF search.kind = "error"
            THEN [exc |-> NoExc, ret |-> <<>>, err |-> <<"YouTube API: Unknown error">>]
        ELSE IF ~Truthy(items)
            THEN [exc |-> NoExc, ret |-> <<>>,
                  err |-> <<"No YouTube videos found for: " \o query>>]
        ELSE IF ~Truthy(video_ids)
            THEN [exc |-> NoExc, ret |-> <<>>, err |-> <<>>]
        ELSE IF stats.kind = "timeout"
            THEN [exc |-> "TimeoutException", ret |-> <<>>, err |-> <<>>]
        ELSE IF \E v \in requested : stats.entries[v].entry = "nostats"
            THEN [exc |-> "KeyError", ret |-> <<>>, err |-> <<>>]
        ELSE LET built == BuildVideos(items, stats.entries, <<>>)
             IN [exc |-> built.exc, ret |-> built.ret, err |-> <<>>]

\* lines 200-202: except Exception as e
YoutubeExcept(errors, r) ==
    IF r.exc = NoExc
        THEN [ret |-> r.ret, errors |-> errors \o r.err, raised |-> NoExc]
    ELSE IF CatchesException(r.exc)
        THEN [ret |-> <<>>, errors |-> Append(errors, "YouTube fetch failed: " \o r.exc),
              raised |-> NoExc]
    ELSE [ret |-> <<>>, errors |-> errors, raised |-> r.exc]

_fetch_youtube(key, query, errors, search, stats) ==
    IF ~key
        THEN [ret |-> <<>>, errors |-> Append(errors, "YOUTUBE_API_KEY not set"),
              raised |-> NoExc]
    ELSE YoutubeExcept(errors, YoutubeTry(query, search, stats))

\* the kind of upstream outcome a video fetch met
YoutubeOutcome(key, search, stats) ==
    LET r == YoutubeTry("", search, stats)
    IN  IF ~key THEN "no_credential"
        ELSE IF search.kind = "timeout" \/ (r.exc = "TimeoutException") THEN "network"
        ELSE IF r.exc # NoExc THEN "malformed"
        ELSE IF search.kind = "error" THEN "error_payload"
        ELSE IF search.items = <<>> THEN "empty"
        ELSE IF r.ret = <<>> THEN "no_usable_items"
        ELSE "ok"

----------------------------------------------------------------------------
(* The trends provider: upstream frames and DataCollector._fetch_trends *)

\* the band's edges counted as outside it
TrendDirectionInclusive(current, avgTenths) ==
    IF 100 * current >= 11 * avgTenths THEN "RISING"
    ELSE IF 100 * current <= 9 * avgTenths THEN "DECLINING"
    ELSE "STABLE"

\* lines 228-233; avg is in tenths, so avg * 1.1 is 11 * avgTenths / 100
\* (the labels' leading emoji are left out)
TrendDirection(current, avgTenths) ==
    IF 100 * current > 11 * avgTenths THEN "RISING"
    ELSE IF 100 * current < 9 * avgTenths THEN "DECLINING"
    ELSE "STABLE"

QueryText(i) == "query " \o ToString(i)
Queries(n) == [i \in 1..n |-> QueryText(i)]

\* related_queries(): the topic is not a key ("absent"), its 'rising' is
\* None ("none"), or a frame of queries ("frame")
RelatedResponses ==
    {[related |-> "absent", rising |-> <<>>], [related |-> "none", rising |-> <<>>],
     [related |-> "frame", rising |-> Queries(2)],
     [related |-> "frame", rising |-> Queries(RisingFetchCap + 2)]}

\* interest_over_time(): last value and mean (tenths) of the topic column
SampleFrames == {[current |-> 80, avg |-> 500], [current |-> 55, avg |-> 500],
                 [current |-> 45, avg |-> 500], [current |-> 30, avg |-> 505]}

TrendsResponses ==
    {[kind |-> k, current |-> 0, avg |-> 0, related |-> "absent", rising |-> <<>>] :
        k \in {"rate_limited", "malformed", "empty"}}
    \cup {[kind |-> "ok", current |-> f.current, avg |-> f.avg,
           related |-> r.related, rising |-> r.rising] :
            f \in SampleFrames, r \in RelatedResponses}

TrendData(keyword, current, avg, rising) ==
    [keyword |-> keyword,
     current_interest |-> current,
     average_interest |-> avg,
     trend_direction |-> TrendDirection(current, avg),
     rising_queries |-> rising]

\* an empty frame that is returned without recording the cause
TrendsTrySilentWhenEmpty(tp, resp) ==
    IF resp.kind = "rate_limited"
        THEN [exc |-> "ResponseError", ret |-> <<>>, err |-> <<>>]
    ELSE IF resp.kind = "empty" THEN [exc |-> NoExc, ret |-> <<>>, err |-> <<>>]
    ELSE IF resp.kind = "malformed"
        THEN [exc |-> "KeyError", ret |-> <<>>, err |-> <<>>]
    ELSE [exc |-> NoExc,
          ret |-> <<TrendData(tp, resp.current, resp.avg,
                              IF resp.related = "frame"
                                 THEN Take(resp.rising, RisingFetchCap) ELSE <<>>)>>,
          err |-> <<>>]

\* lines 211-241, the body of the try block
TrendsTry(tp, resp) ==
    IF resp.kind = "rate_limited"
        THEN [exc |-> "ResponseError", ret |-> <<>>, err |-> <<>>]
    ELSE IF resp.kind = "empty"
        THEN [exc |-> NoExc, ret |-> <<>>, err |-> <<"No Google Trends data for: " \o tp>>]
    ELSE IF resp.kind = "malformed"
        THEN [exc |-> "KeyError", ret |-> <<>>, err |-> <<>>]
    ELSE LET rising_queries == IF resp.related = "frame"
                                  THEN Take(resp.rising, RisingFetchCap) ELSE <<>>
         IN [exc |-> NoExc,
             ret |-> <<TrendData(tp, resp.current, resp.avg, rising_queries)>>,
             err |-> <<>>]

\* lines 243-245: except Exception as e
TrendsExcept(errors, r) ==
    IF r.exc = NoExc
        THEN [ret |-> r.ret, errors |-> errors \o r.err, raised |-> NoExc]
    ELSE IF CatchesException(r.exc)
        THEN [ret |-> <<>>, errors |-> Append(errors, "Google Trends failed: " \o r.exc),
              raised |-> NoExc]
    ELSE [ret |-> <<>>, errors |-> errors, raised |-> r.exc]

\* a fetch that reports on a list of its own making instead of the shared one
_fetch_trends_on_new_list(available, tp, errors, resp) ==
    IF ~available
        THEN [ret |-> <<>>, errors |-> <<"pytrends not installed (pip install pytrends)">>,
              raised |-> NoExc]
    ELSE TrendsExcept(<<>>, TrendsTry(tp, resp))

_fetch_trends(available, tp, errors, resp) ==
    IF ~available
        THEN [ret |-> <<>>,
              errors |-> Append(errors, "pytrends not installed (pip install pytrends)"),
              raised |-> NoExc]
    ELSE TrendsExcept(errors, TrendsTry(tp, resp))

TrendsOutcome(available, resp) ==
    IF ~available THEN "no_credential"
    ELSE IF resp.kind = "rate_limited" THEN "network"
    ELSE resp.kind

----------------------------------------------------------------------------
(* The questions provider: upstream responses and DataCollector._fetch_serp *)

QuestionText(i) == "question " \o ToString(i)
QuestionItems(n) == [i \in 1..n |-> [question |-> QuestionText(i)]]
NoQuestion == "NO QUESTION KEY"

\* data.get("related_questions", []): absent key and empty list read alike
RelatedQuestionLists ==
    {<<>>, QuestionItems(2), <<[question |-> NoQuestion]>>,
     <<[question |-> NoQuestion], [question |-> QuestionText(1)]>>,
     QuestionItems(QuestionCap + 2)}

SerpResponses ==
    {[kind |-> k, related_questions |-> <<>>] : k \in {"timeout", "malformed", "error"}}
    \cup {[kind |-> "ok", related_questions |-> l] : l \in RelatedQuestionLists}

\* lines 269-272: keep item["question"] of the items that have one
RECURSIVE QuestionsOf(_)
QuestionsOf(items) ==
    IF items = <<>> THEN <<>>
    ELSE IF Head(items).question = NoQuestion THEN QuestionsOf(Tail(items))
    ELSE <<Head(items).question>> \o QuestionsOf(Tail(items))

\* a fetch that keeps the questions it found and also reports the items it
\* skipped
SerpTryReportingSkipped(resp) ==
    IF resp.kind = "timeout"
        THEN [exc |-> "TimeoutException", ret |-> <<>>, err |-> <<>>]
    ELSE IF resp.kind = "malformed"
        THEN [exc |-> "AttributeError", ret |-> <<>>, err |-> <<>>]
    ELSE IF resp.kind = "error"
        THEN [exc |-> NoExc, ret |-> <<>>, err |-> <<"SERP API: Invalid API key">>]
    ELSE [exc |-> NoExc, ret |-> QuestionsOf(resp.related_questions),
          err |-> IF Len(QuestionsOf(resp.related_questions)) < Len(resp.related_questions)
                     THEN <<"SERP API: items without a question">> ELSE <<>>]

\* lines 254-274, the body of the try block
SerpTry(resp) ==
    IF resp.kind = "timeout"
        THEN [exc |-> "TimeoutException", ret |-> <<>>, err |-> <<>>]
    ELSE IF resp.kind = "malformed"
        THEN [exc |-> "AttributeError", ret |-> <<>>, err |-> <<>>]
    ELSE IF resp.kind = "error"
        THEN [exc |-> NoExc, ret |-> <<>>, err |-> <<"SERP API: Invalid API key">>]
    ELSE [exc |-> NoExc, ret |-> QuestionsOf(resp.related_questions), err |-> <<>>]

\* lines 276-278: except Exception as e
SerpExcept(errors, r) ==
    IF r.exc = NoExc
        THEN [ret |-> r.ret, errors |-> errors \o r.err, raised |-> NoExc]
    ELSE IF CatchesException(r.exc)
        THEN [ret |-> <<>>, errors |-> Append(errors, "SERP fetch failed: " \o r.exc),
              raised |-> NoExc]
    ELSE [ret |-> <<>>, errors |-> errors, raised |-> r.exc]

\* a missing key that returns without recording the cause
_fetch_serp_silent_without_key(key, query, errors, resp) ==
    IF ~key THEN [ret |-> <<>>, errors |-> errors, raised |-> NoExc]
    ELSE SerpExcept(errors, SerpTry(resp))

_fetch_serp(key, query, errors, resp) ==
    IF ~key
        THEN [ret |-> <<>>, errors |-> Append(errors, "SERP_API_KEY not set"),
              raised |-> NoExc]
    ELSE SerpExcept(errors, SerpTry(resp))

SerpOutcome(key, resp) ==
    IF ~key THEN "no_credential"
    ELSE IF resp.kind = "timeout" THEN "network"
    ELSE IF resp.kind = "ok"
        THEN (IF resp.related_questions = <<>> THEN "empty"
              ELSE IF QuestionsOf(resp.related_questions) = <<>> THEN "no_usable_items"
              ELSE "ok")
    ELSE IF resp.kind = "error" THEN "error_payload"
    ELSE resp.kind

----------------------------------------------------------------------------
(* CollectedData and DataCollector.collect_all *)

CollectedData(tp, pf, at) ==
    [topic |-> tp, platform |-> pf, collected_at |-> at,
     youtube_videos |-> <<>>, trends |-> <<>>, serp_questions |-> <<>>,
     errors |-> <<>>]

\* `and` written for `or`
has_data_all_lists(d) ==
    Truthy(d.youtube_videos) /\ Truthy(d.trends) /\ Truthy(d.serp_questions)

\* line 49: bool(self.youtube_videos or self.trends or self.serp_questions)
has_data(d) == Truthy(PyOr(PyOr(d.youtube_videos, d.trends), d.serp_questions))

NoOutcome == [p \in Providers |-> "not_fetched"]
NoneAppended == [p \in Providers |-> <<>>]

\* what a fetch added to the shared errors list
Added(before, after) == SubSeq(after, Len(before) + 1, Len(after))

Init ==
    /\ youtube_key \in BOOLEAN
    /\ serp_key \in BOOLEAN
    /\ pytrends \in BOOLEAN
    /\ topic \in Topics
    /\ platform \in Platforms
    /\ pc = "start"
    /\ data = CollectedData("", "", "")
    /\ outcome = NoOutcome
    /\ appended = NoneAppended
    /\ tasks = <<>>
    /\ steps = <<>>
    /\ exception = NoExc
    /\ run_result = NoRunResult
    /\ response = NoResponse
    /\ search_items = <<>>
    /\ calls = <<>>
    /\ tool = NoToolRun
    /\ invs = NoInvocations
    /\ heap = <<>>
    /\ http = NoHttp

\* run line 296 entering collect_all, lines 113-117
CollectAllStart ==
    /\ pc = "start"
    /\ data' = CollectedData(topic, platform, Timestamp)
    /\ calls' = Append(calls, "CollectedData")
    /\ pc' = "fetch_youtube"
    /\ UNCHANGED <<toolVars, invVars, httpVars, search_items>>
    /\ UNCHANGED <<youtube_key, serp_key, pytrends, topic, platform, outcome,
                   appended, tasks, steps, exception, run_result, response>>

\* collect_all giving up at the first provider that returns nothing
AfterFetchStoppingAtFailure(r, next) ==
    /\ pc' = IF r.raised # NoExc THEN "collect_raised"
             ELSE IF r.ret = <<>> THEN "collected" ELSE next
    /\ exception' = r.raised

\* where collect_all goes after a fetch: on, or out with the fetch's exception
AfterFetch(r, next) ==
    /\ pc' = IF r.raised = NoExc THEN next ELSE "collect_raised"
    /\ exception' = r.raised

\* lines 136-175: the fetch goes on to the statistics request
AsksStatistics(key, search) ==
    /\ key
    /\ search.kind = "ok"
    /\ Truthy(search.items)
    /\ Truthy(SelectSeq(search.items, LAMBDA it : it.vid # NoVideoId))

\* the statistics argument of a fetch that never sends the second request
StatsNotRequested == [kind |-> "timeout", entries |-> [v \in VideoIds |-> RawAbsent]]

\* the fetch of line 120 has returned r
YoutubeReturns(r, search, stats) ==
    /\ data' = [data EXCEPT !.youtube_videos = r.ret, !.errors = r.errors]
    /\ outcome' = [outcome EXCEPT !["youtube"] =
                        YoutubeOutcome(youtube_key, search, stats)]
    /\ appended' = [appended EXCEPT !["youtube"] = Added(data.errors, r.errors)]
    /\ search_items' = <<>>
    /\ AfterFetch(r, "fetch_trends")

\* line 120 up to the answer to the search request (lines 132-164): the fetch
\* returns there, or holds its `items` and sends the statistics request
FetchYoutube ==
    /\ pc = "fetch_youtube"
    /\ calls' = Append(calls, "_fetch_youtube")
    /\ \E search \in SearchResponses :
        IF AsksStatistics(youtube_key, search)
            THEN /\ search_items' = search.items
                 /\ pc' = "fetch_youtube_stats"
                 /\ UNCHANGED <<data, outcome, appended, exception>>
        ELSE YoutubeReturns(_fetch_youtube(youtube_key, topic, data.errors, search,
                                           StatsNotRequested),
                            search, StatsNotRequested)
    /\ UNCHANGED <<toolVars, invVars, httpVars>>
    /\ UNCHANGED <<youtube_key, serp_key, pytrends, topic, platform, tasks, steps,
                   run_result, response>>

\* lines 166-202: the statistics request is answered with `stats`; the merge
\* and the return
FetchYoutubeStatsWith(stats) ==
    /\ pc = "fetch_youtube_stats"
    /\ LET search == [kind |-> "ok", items |-> search_items]
       IN  YoutubeReturns(_fetch_youtube(youtube_key, topic, data.errors, search,
                                         stats),
                          search, stats)
    /\ UNCHANGED <<toolVars, invVars, httpVars, calls>>
    /\ UNCHANGED <<youtube_key, serp_key, pytrends, topic, platform, tasks, steps,
                   run_result, response>>

FetchYoutubeStats == \E stats \in StatsResponses : FetchYoutubeStatsWith(stats)

\* line 123, the upstream answering with one of `responses`
FetchTrendsFrom(responses) ==
    /\ pc = "fetch_trends"
    /\ \E resp \in responses :
        LET r == _fetch_trends(pytrends, topic, data.errors, resp)
        IN  /\ data' = [data EXCEPT !.trends = r.ret, !.errors = r.errors]
            /\ outcome' = [outcome EXCEPT !["trends"] = TrendsOutcome(pytrends, resp)]
            /\ appended' = [appended EXCEPT !["trends"] = Added(data.errors, r.errors)]
            /\ AfterFetch(r, "fetch_serp")
    /\ calls' = Append(calls, "_fetch_trends")
    /\ UNCHANGED <<toolVars, invVars, httpVars, search_items>>
    /\ UNCHANGED <<youtube_key, serp_key, pytrends, topic, platform, tasks, steps,
                   run_result, response>>

FetchTrends == FetchTrendsFrom(TrendsResponses)

\* lines 126-128
FetchSerp ==
    /\ pc = "fetch_serp"
    /\ \E resp \in SerpResponses :
        LET r == _fetch_serp(serp_key, topic, data.errors, resp)
        IN  /\ data' = [data EXCEPT !.serp_questions = r.ret, !.errors = r.errors]
            /\ outcome' = [outcome EXCEPT !["serp"] = SerpOutcome(serp_key, resp)]
            /\ appended' = [appended EXCEPT !["serp"] = Added(data.errors, r.errors)]
            /\ AfterFetch(r, "collected")
    /\ calls' = Append(calls, "_fetch_serp")
    /\ UNCHANGED <<toolVars, invVars, httpVars, search_items>>
    /\ UNCHANGED <<youtube_key, serp_key, pytrends, topic, platform, tasks, steps,
                   run_result, response>>

----------------------------------------------------------------------------
(* CollectedData.to_prompt_context: the text is a sequence of lines, a line *)
(* a sequence of tokens; a token is literal text, a list index, or the      *)
(* characters of a rendered numeric field ("num")                           *)

Text(str) == [t |-> "text", v |-> <<str>>]
Index(i) == [t |-> "index", v |-> Str(i)]
Num(chars) == [t |-> "num", v |-> chars]

RECURSIVE Flatten(_)
Flatten(ss) == IF ss = <<>> THEN <<>> ELSE Head(ss) \o Flatten(Tail(ss))

\* format(n, ","): a comma before every group of three digits
RECURSIVE GroupThousands(_)
GroupThousands(chars) ==
    IF Len(chars) <= 3 THEN chars
    ELSE GroupThousands(SubSeq(chars, 1, Len(chars) - 3)) \o <<",">>
         \o SubSeq(chars, Len(chars) - 2, Len(chars))

FormatCommas(n) == IF n < 0 THEN <<"-">> \o GroupThousands(Str(0 - n))
                   ELSE GroupThousands(Str(n))

\* format(x, ".0f") of a value held in tenths: to the nearest integer, a
\* half to the even one
Format0f(tenths) ==
    LET q == tenths \div 10
        r == tenths % 10
    IN  Str(IF r > 5 \/ (r = 5 /\ q % 2 = 1) THEN q + 1 ELSE q)

\* ', '.join(l), as tokens
RECURSIVE Join(_)
Join(l) == IF l = <<>> THEN <<>>
           ELSE IF Len(l) = 1 THEN <<Text(l[1])>>
           ELSE <<Text(l[1]), Text(", ")>> \o Join(Tail(l))

\* lines 53-59
HeaderLines(d) ==
    <<  <<Text("=== REAL DATA COLLECTED ===")>>,
        <<Text("Topic: "), Text(d.topic)>>,
        <<Text("Platform: "), Text(d.platform)>>,
        <<Text("Collected: "), Text(d.collected_at)>> >>

\* lines 64-70
VideoLines(i, v) ==
    <<  <<Index(i), Text(". "), Text(v.title)>>,
        <<Text("Channel: "), Text(v.channel_name)>>,
        <<Text("Views: "), Num(FormatCommas(v.view_count)),
          Text(" | Likes: "), Num(FormatCommas(v.like_count))>>,
        <<Text("Published: "), Text(v.publish_date)>>,
        <<Text("URL: "), Text(v.url)>> >>

\* every video rendered, however many there are
VideoSectionUncapped(d) ==
    IF Truthy(d.youtube_videos)
        THEN <<  <<Text("### TOP YOUTUBE VIDEOS (REAL):")>> >>
             \o Flatten([i \in 1..Len(d.youtube_videos) |->
                            VideoLines(i, d.youtube_videos[i])])
    ELSE <<  <<Text("### YOUTUBE: No data (API issue)")>> >>

\* lines 61-72
VideoSection(d) ==
    IF Truthy(d.youtube_videos)
        THEN LET shown == Take(d.youtube_videos, VideoCap)
             IN <<  <<Text("### TOP YOUTUBE VIDEOS (REAL):")>> >>
                \o Flatten([i \in 1..Len(shown) |-> VideoLines(i, shown[i])])
    ELSE <<  <<Text("### YOUTUBE: No data (API issue)")>> >>

\* lines 78-83
TrendLines(t) ==
    <<  <<Text("Keyword: "), Text(t.keyword)>>,
        <<Text("- Interest: "), Num(Str(t.current_interest)), Text("/100 (avg: "),
          Num(Format0f(t.average_interest)), Text(")")>>,
        <<Text("- Direction: "), Text(t.trend_direction)>>,
        <<Text("- Rising queries: ")>>
            \o (IF Truthy(t.rising_queries)
                   THEN Join(Take(t.rising_queries, RisingRenderCap))
                ELSE <<Text("None")>>) >>

\* lines 75-85
TrendSection(d) ==
    IF Truthy(d.trends)
        THEN <<  <<Text("### GOOGLE TRENDS (REAL):")>> >>
             \o Flatten([i \in 1..Len(d.trends) |-> TrendLines(d.trends[i])])
    ELSE <<  <<Text("### GOOGLE TRENDS: No data")>> >>

\* lines 88-93
QuestionSection(d) ==
    IF Truthy(d.serp_questions)
        THEN LET shown == Take(d.serp_questions, QuestionCap)
             IN <<  <<Text("### PEOPLE ALSO ASK (REAL):")>> >>
                \o [i \in 1..Len(shown) |-> <<Text("- "), Text(shown[i])>>]
    ELSE <<  <<Text("### SERP QUESTIONS: No data")>> >>

\* lines 96-99
ErrorSection(d) ==
    IF Truthy(d.errors)
        THEN <<  <<Text("### DATA COLLECTION ISSUES:")>> >>
             \o [i \in 1..Len(d.errors) |-> <<Text("- "), Text(d.errors[i])>>]
    ELSE <<>>

\* the issues block put ahead of the data sections
to_prompt_context_errors_first(d) ==
    HeaderLines(d) \o ErrorSection(d) \o VideoSection(d) \o TrendSection(d)
    \o QuestionSection(d)

\* lines 51-101
to_prompt_context(d) ==
    HeaderLines(d) \o VideoSection(d) \o TrendSection(d) \o QuestionSection(d)
    \o ErrorSection(d)

\* the number a rendered numeric token reads as: separators dropped
ReadNumber(chars) == PyInt(SelectSeq(chars, LAMBDA ch : ch # ","))

----------------------------------------------------------------------------
(* SmartScriptCrew.run after collect_all: the data check and the two tasks *)

\* platform.lower() on the platform values of the model
Lower(p) == IF p = "Instagram" THEN "instagram" ELSE p

\* the keys of the platform_specs dict literal, lines 137-236
SpecKeys == {"youtube", "instagram", "tiktok", "newsletter"}

\* lines 148, 175, 199: the f-string reads top_video.view_count with no
\* guard; the newsletter entry (line 222) reads len(youtube_videos) instead
ReadsTopVideoUnguarded(k) == k \in {"youtube", "instagram", "tiktok"}

\* line 121: None when the list is empty
HasTopVideo(d) == Truthy(d.youtube_videos)

\* the dict literal evaluates every entry before .get() picks one
PlatformSpecsRaise(d) ==
    \E k \in SpecKeys : ReadsTopVideoUnguarded(k) /\ ~HasTopVideo(d)

\* line 238: platform_specs.get(platform.lower(), platform_specs["youtube"])
SpecFor(pf) == IF Lower(pf) \in SpecKeys THEN Lower(pf) ELSE "youtube"

AnalysisTask == [name |-> "analysis", agent |-> "analyzer", spec |-> "none",
                 context |-> <<>>]
WritingTask(pf) == [name |-> "writing", agent |-> "writer", spec |-> SpecFor(pf),
                    context |-> <<"analysis">>]

RunResult(ok, d, out) ==
    [returned |-> TRUE, success |-> ok,
     message |-> IF ok THEN "" ELSE "API data collection failed. Check your API keys.",
     errors |-> d.errors,
     counts |-> IF ok THEN <<Len(d.youtube_videos), Len(d.trends), Len(d.serp_questions)>>
                ELSE <<>>,
     result |-> out]

\* lines 299-312: the has_data check, then both tasks are built
RunCreateTasks ==
    /\ pc = "collected"
    /\ IF ~has_data(data)
          THEN /\ run_result' = RunResult(FALSE, data, <<>>)
               /\ pc' = "run_returned"
               /\ UNCHANGED <<tasks, exception>>
       ELSE IF PlatformSpecsRaise(data)
          THEN /\ tasks' = <<AnalysisTask>>
               /\ exception' = "AttributeError"
               /\ pc' = "run_raised"
               /\ UNCHANGED run_result
       ELSE /\ tasks' = <<AnalysisTask, WritingTask(platform)>>
            /\ pc' = "kickoff"
            /\ UNCHANGED <<run_result, exception>>
    /\ UNCHANGED <<toolVars, invVars, httpVars, search_items, calls>>
    /\ UNCHANGED <<youtube_key, serp_key, pytrends, topic, platform, data, outcome,
                   appended, steps, response>>

----------------------------------------------------------------------------
(* crew.kickoff, Process.sequential: one generation-backend call per task.   *)
(* A step is a task the crew has started: "running" until its backend call  *)
(* returns ("ok") or raises ("failed").                                     *)

BackendFailures == {"authentication_error: invalid x-api-key",
                    "ANTHROPIC_API_KEY is required",
                    "Connection reset by peer",
                    "rate_limit_error: request req_4015 was throttled"}

\* the generation backend answers a call with text or raises
BackendOutcomes == {"ok"} \cup BackendFailures

\* full_crew.py lines 58-91: the three tasks of FullContentCrew
FullTasks ==
    <<[name |-> "find_topics", agent |-> "topic_finder", spec |-> "none", context |-> <<>>],
      [name |-> "research", agent |-> "content_researcher", spec |-> "none",
       context |-> <<>>],
      [name |-> "script", agent |-> "script_writer", spec |-> "none", context |-> <<>>]>>

\* the crew of the request is FullContentCrew
IsFullCrew(ts) == ts # <<>> /\ ts[1].name = "find_topics"

OutputOf(name) == name \o " output"

\* the outputs of the finished steps that task.context names (line 312)
ContextFor(task, done) ==
    LET named == SelectSeq(done, LAMBDA st : st.status = "ok" /\ st.name \in Range(task.context))
    IN  [i \in 1..Len(named) |-> named[i].output]

\* a crew that starts a task whatever the state of the earlier ones
MayStartAnyTime(done, ts) == Len(done) < Len(ts)

\* process=Process.sequential (smart_script_crew.py line 317, full_crew.py
\* line 97): the next task starts once every earlier one has returned
MayStart(done, ts) ==
    /\ Len(done) < Len(ts)
    /\ \A i \in 1..Len(done) : done[i].status = "ok"

\* line 321: the crew starts its next task
StartTask ==
    /\ pc = "kickoff"
    /\ MayStart(steps, tasks)
    /\ LET task == tasks[Len(steps) + 1]
       IN  steps' = Append(steps, [name |-> task.name, status |-> "running",
                                   context |-> ContextFor(task, steps), output |-> ""])
    /\ UNCHANGED <<toolVars, invVars, httpVars, search_items, calls>>
    /\ UNCHANGED <<youtube_key, serp_key, pytrends, topic, platform, pc, data, outcome,
                   appended, tasks, exception, run_result, response>>

\* full_crew.py lines 103-108: run returns what kickoff returned
FullRunResult(out) ==
    [returned |-> TRUE, success |-> TRUE, message |-> "", errors |-> <<>>,
     counts |-> <<>>, result |-> out]

\* line 321: the backend call of a running task returns or raises; when the
\* last task has returned, run returns (smart_script_crew.py lines 326-336,
\* full_crew.py line 108); an exception leaves kickoff and run
FinishTask ==
    /\ pc = "kickoff"
    /\ \E i \in 1..Len(steps), b \in BackendOutcomes :
        /\ steps[i].status = "running"
        /\ IF b = "ok"
              THEN LET after == [steps EXCEPT ![i].status = "ok",
                                             ![i].output = OutputOf(steps[i].name)]
                       finished == /\ Len(after) = Len(tasks)
                                   /\ \A j \in 1..Len(after) : after[j].status = "ok"
                       final == <<after[Len(after)].output>>
                   IN  /\ steps' = after
                       /\ pc' = IF finished THEN "run_returned" ELSE "kickoff"
                       /\ run_result' = IF ~finished THEN run_result
                                        ELSE IF IsFullCrew(tasks) THEN FullRunResult(final)
                                        ELSE RunResult(TRUE, data, final)
                       /\ UNCHANGED exception
           ELSE /\ steps' = [steps EXCEPT ![i].status = "failed"]
                /\ pc' = "run_raised"
                /\ exception' = b
                /\ UNCHANGED run_result
    /\ UNCHANGED <<toolVars, invVars, httpVars, search_items, calls>>
    /\ UNCHANGED <<youtube_key, serp_key, pytrends, topic, platform, data, outcome,
                   appended, tasks, response>>

----------------------------------------------------------------------------
(* The /smart-script route and handle_crew_error *)

\* agent_routes.py lines 84-106
handle_crew_error(msg) ==
    IF \/ Contains(msg, "authentication_error")
       \/ Contains(msg, "invalid x-api-key")
       \/ Contains(msg, "401")
        THEN [status |-> 503, success |-> FALSE, errors |-> <<>>,
              detail |-> "LLM service authentication failed. Please check ANTHROPIC_API_KEY configuration."]
    ELSE IF \/ Contains(msg, "ANTHROPIC_API_KEY is required")
            \/ Contains(str_lower(msg), "API key")
        THEN [status |-> 503, success |-> FALSE, errors |-> <<>>,
              detail |-> "LLM API key not configured. Please set ANTHROPIC_API_KEY environment variable."]
    ELSE [status |-> 500, success |-> FALSE, errors |-> <<>>,
          detail |-> "An error occurred while processing your request. Please check the service configuration."]

\* a route that does not look at the dict's "success" entry
AgentResponseIgnoringSuccess(r) ==
    [status |-> 200, success |-> TRUE, errors |-> r.errors,
     detail |-> "Smart script generated with real data"]

\* agent_routes.py lines 244-272: AgentResponse from the dict run returned
AgentResponse(r) ==
    IF ~r.success
        THEN [status |-> 200, success |-> FALSE, errors |-> r.errors, detail |-> r.message]
    ELSE [status |-> 200, success |-> TRUE, errors |-> r.errors,
          detail |-> "Smart script generated with real data"]

\* agent_routes.py lines 210-214: AgentResponse of /generate
FullAgentResponse(r) ==
    [status |-> 200, success |-> TRUE, errors |-> <<>>,
     detail |-> "Full content generated successfully"]

\* agent_routes.py lines 236-274 (/smart-script) and 192-216 (/generate)
RouteRespond ==
    /\ pc \in {"run_returned", "run_raised", "collect_raised"}
    /\ response' = IF pc # "run_returned" THEN handle_crew_error(exception)
                   ELSE IF IsFullCrew(tasks) THEN FullAgentResponse(run_result)
                   ELSE AgentResponse(run_result)
    /\ pc' = "responded"
    /\ UNCHANGED <<toolVars, invVars, httpVars, search_items, calls>>
    /\ UNCHANGED <<youtube_key, serp_key, pytrends, topic, platform, data, outcome,
                   appended, tasks, steps, exception, run_result>>

Next ==
    \/ CollectAllStart
    \/ FetchYoutube
    \/ FetchYoutubeStats
    \/ FetchTrends
    \/ FetchSerp
    \/ RunCreateTasks
    \/ StartTask
    \/ FinishTask
    \/ RouteRespond

Spec == Init /\ [][Next]_vars

----------------------------------------------------------------------------
(* The trend direction over the whole interest range: collect_all has met a *)
(* missing video key and the trends upstream answers with any frame         *)

RangeResponses ==
    {[kind |-> "ok", current |-> c, avg |-> a, related |-> "none", rising |-> <<>>] :
        c \in 0..MaxInterest, a \in 0..MaxAvgTenths}

InitTrends ==
    /\ youtube_key = FALSE
    /\ serp_key = TRUE
    /\ pytrends = TRUE
    /\ topic \in Topics
    /\ platform = "youtube"
    /\ pc = "fetch_trends"
    /\ data = [CollectedData(topic, platform, Timestamp) EXCEPT
                    !.errors = <<"YOUTUBE_API_KEY not set">>]
    /\ outcome = [NoOutcome EXCEPT !["youtube"] = "no_credential"]
    /\ appended = [NoneAppended EXCEPT !["youtube"] = <<"YOUTUBE_API_KEY not set">>]
    /\ tasks = <<>>
    /\ steps = <<>>
    /\ exception = NoExc
    /\ run_result = NoRunResult
    /\ response = NoResponse
    /\ search_items = <<>>
    /\ calls = <<"CollectedData", "_fetch_youtube">>
    /\ tool = NoToolRun
    /\ invs = NoInvocations
    /\ heap = <<>>
    /\ http = NoHttp

FetchTrendsRange == FetchTrendsFrom(RangeResponses)

NextTrends == FetchTrendsRange

SpecTrends == InitTrends /\ [][NextTrends]_vars

----------------------------------------------------------------------------
(* The serialisation over lists of any length: run is handed a snapshot     *)
(* whose lists hold 0..MaxListLen records (collect_all is not run here: no  *)
(* fetch is called, outcome and appended stay unset) and goes on from line  *)
(* 299                                                                      *)

LongVideos(n) == [i \in 1..n |-> YouTubeVideo(ToString(i), RawOk)]
LongQuestions(n) == [i \in 1..n |-> QuestionText(i)]
\* no trend record (n = -1), or one with n rising queries
LongTrends(tp, n) == IF n < 0 THEN <<>> ELSE <<TrendData(tp, 80, 500, Queries(n))>>

InitRender ==
    /\ youtube_key = TRUE
    /\ serp_key = TRUE
    /\ pytrends = TRUE
    /\ topic \in Topics
    /\ platform \in Platforms
    /\ pc = "collected"
    /\ \E nv \in 0..MaxListLen, nq \in 0..MaxListLen, nr \in (-1)..MaxListLen :
            data = [CollectedData(topic, platform, Timestamp) EXCEPT
                        !.youtube_videos = LongVideos(nv),
                        !.trends = LongTrends(topic, nr),
                        !.serp_questions = LongQuestions(nq)]
    /\ outcome = NoOutcome
    /\ appended = NoneAppended
    /\ tasks = <<>>
    /\ steps = <<>>
    /\ exception = NoExc
    /\ run_result = NoRunResult
    /\ response = NoResponse
    /\ search_items = <<>>
    /\ calls = <<>>
    /\ tool = NoToolRun
    /\ invs = NoInvocations
    /\ heap = <<>>
    /\ http = NoHttp

NextRender == RunCreateTasks

SpecRender == InitRender /\ [][NextRender]_vars

----------------------------------------------------------------------------
(* The crew tools with a fallback: GoogleTrendsTool, RedditTool, TwitterTool *)
(* (tools/google_trends.py, tools/reddit_api.py, tools/twitter_api.py).      *)
(* A run of a tool is tool.pc going idle -> request steps -> done;           *)
(* tool.requests lists the requests sent, tool.upstream collects the data   *)
(* values the upstream has returned and tool.failed says that the run ended  *)
(* without an upstream answer.                                               *)

Tools == {"google_trends", "reddit", "twitter"}

\* the data values an upstream can answer with (post titles, tweets, trend
\* figures)
UpstreamValues == {"upstream value 1", "upstream value 2", "upstream value 3"}

\* a request to an upstream raises, or is answered with a list of values
ToolResponses ==
    {[kind |-> "exception", values |-> <<>>]}
    \cup {[kind |-> "ok", values |-> v] : v \in SeqsUpTo(UpstreamValues, MaxToolItems)}

\* posts[:10], tweets[:10]
ToolShownCap == 10

\* google_trends.py lines 91-106
_fallback_trends ==
    [heading |-> "## Google Trends Analysis FAILED",
     error |-> "ERROR: Could not fetch real trends data.",
     values |-> <<>>]

\* google_trends.py lines 58-86
TrendsToolResult(values) ==
    [heading |-> "## Google Trends Analysis for AI Automation", error |-> "",
     values |-> values]

\* reddit_api.py lines 85-118
RedditFormatResults(posts) ==
    [heading |-> "## Reddit Community Insights", error |-> "",
     values |-> Take(posts, ToolShownCap)]

\* reddit_api.py lines 120-160: the text names five discussions with their
\* subreddits and vote counts
RedditFallbackData ==
    [heading |-> "## Reddit Community Insights (Cached Data)", error |-> "",
     values |-> <<"Best AI automation tools for small business?",
                  "r/smallbusiness | 234 upvotes | 89 comments",
                  "How I automated 80% of my workflow with AI",
                  "r/Entrepreneur | 567 upvotes | 145 comments",
                  "AI agents vs traditional automation - which is better?",
                  "r/automation | 189 upvotes | 67 comments",
                  "ChatGPT API for business automation tutorial",
                  "r/ChatGPT | 445 upvotes | 112 comments",
                  "Is AI automation replacing jobs or creating them?",
                  "r/artificial | 678 upvotes | 234 comments">>]

\* twitter_api.py lines 57-91
TwitterFormatResults(tweets) ==
    [heading |-> "## Twitter/X AI News & Trends", error |-> "",
     values |-> Take(tweets, ToolShownCap)]

\* twitter_api.py lines 93-147: the text names accounts and trending topics
TwitterFallbackData ==
    [heading |-> "## Twitter/X AI News & Trends (Curated)", error |-> "",
     values |-> <<"@levaborisov - AI automation tutorials",
                  "@taborwilliams - AI agency content",
                  "#AIAgents - Rising fast",
                  "#ChatGPTAutomation - Hot topic",
                  "#NoCodeAI - Growing">>]

\* the run sent `request` and returns `text` without an upstream answer
ToolFailed(request, text) ==
    tool' = [tool EXCEPT !.pc = "done", !.result = text, !.failed = TRUE,
                         !.requests = Append(tool.requests, request)]

\* the run sent `request`, was answered with resp, and returns `text`
ToolObtained(request, resp, text) ==
    tool' = [tool EXCEPT !.pc = "done", !.result = text,
                         !.requests = Append(tool.requests, request),
                         !.upstream = tool.upstream \o resp.values]

\* _run is entered: google_trends.py lines 32-33, reddit_api.py lines 27-32,
\* twitter_api.py lines 25-28.  `configured`: pytrends is importable, the
\* Reddit client id and secret are set, the Twitter bearer token is set.
ToolRunStart ==
    /\ tool.pc = "idle"
    /\ \E n \in Tools, c \in BOOLEAN :
        LET t == [tool EXCEPT !.name = n, !.configured = c]
        IN  tool' =
                IF n = "google_trends"
                    THEN IF c THEN [t EXCEPT !.pc = "request"]
                         ELSE [t EXCEPT !.pc = "done", !.result = _fallback_trends,
                                        !.failed = TRUE]
                ELSE IF n = "reddit"
                    THEN [t EXCEPT !.pc = IF c THEN "token" ELSE "public"]
                ELSE IF c THEN [t EXCEPT !.pc = "request"]
                     ELSE [t EXCEPT !.pc = "done", !.result = TwitterFallbackData,
                                    !.failed = TRUE]
    /\ UNCHANGED <<requestVars, invVars, httpVars>>

\* google_trends.py lines 35-89
GoogleTrendsRequest ==
    /\ tool.name = "google_trends" /\ tool.pc = "request"
    /\ \E resp \in ToolResponses :
        IF resp.kind = "exception" THEN ToolFailed("pytrends", _fallback_trends)
        ELSE ToolObtained("pytrends", resp, TrendsToolResult(resp.values))
    /\ UNCHANGED <<requestVars, invVars, httpVars>>

\* reddit_api.py lines 34-49 and 64-65: the token request
RedditToken ==
    /\ tool.name = "reddit" /\ tool.pc = "token"
    /\ \E answer \in {"token", "no_token", "exception"} :
        tool' = [tool EXCEPT !.pc = IF answer = "token" THEN "oauth" ELSE "public",
                             !.requests = Append(tool.requests, "access_token")]
    /\ UNCHANGED <<requestVars, invVars, httpVars>>

\* reddit_api.py lines 51-65: the authorised search
RedditOauthSearch ==
    /\ tool.name = "reddit" /\ tool.pc = "oauth"
    /\ \E resp \in ToolResponses :
        IF resp.kind = "exception"
            THEN tool' = [tool EXCEPT !.pc = "public",
                                      !.requests = Append(tool.requests, "oauth.reddit.com")]
        ELSE ToolObtained("oauth.reddit.com", resp, RedditFormatResults(resp.values))
    /\ UNCHANGED <<requestVars, invVars, httpVars>>

\* reddit_api.py lines 67-83: _public_search
RedditPublicSearch ==
    /\ tool.name = "reddit" /\ tool.pc = "public"
    /\ \E resp \in ToolResponses :
        IF resp.kind = "exception" THEN ToolFailed("www.reddit.com", RedditFallbackData)
        ELSE ToolObtained("www.reddit.com", resp, RedditFormatResults(resp.values))
    /\ UNCHANGED <<requestVars, invVars, httpVars>>

\* twitter_api.py lines 30-55; a response without 'data' is "no_data"
TwitterRequest ==
    /\ tool.name = "twitter" /\ tool.pc = "request"
    /\ \E resp \in ToolResponses \cup {[kind |-> "no_data", values |-> <<>>]} :
        IF resp.kind \in {"exception", "no_data"}
            THEN ToolFailed("api.twitter.com", TwitterFallbackData)
        ELSE ToolObtained("api.twitter.com", resp, TwitterFormatResults(resp.values))
    /\ UNCHANGED <<requestVars, invVars, httpVars>>

\* no request is being served
NoRequest ==
    /\ topic \in Topics
    /\ platform = "youtube"
    /\ pc = "no_request"
    /\ data = CollectedData("", "", "")
    /\ outcome = NoOutcome
    /\ appended = NoneAppended
    /\ tasks = <<>>
    /\ steps = <<>>
    /\ exception = NoExc
    /\ run_result = NoRunResult
    /\ response = NoResponse
    /\ search_items = <<>>
    /\ calls = <<>>

InitTools ==
    /\ youtube_key = FALSE
    /\ serp_key = FALSE
    /\ pytrends = FALSE
    /\ NoRequest
    /\ tool = NoToolRun
    /\ invs = NoInvocations
    /\ heap = <<>>
    /\ http = NoHttp

NextTools ==
    \/ ToolRunStart
    \/ GoogleTrendsRequest
    \/ RedditToken
    \/ RedditOauthSearch
    \/ RedditPublicSearch
    \/ TwitterRequest

SpecTools == InitTools /\ [][NextTools]_vars

----------------------------------------------------------------------------
(* collect_all invocations side by side (the route is a plain `def`, so      *)
(* requests are served on worker threads; every request builds its own       *)
(* SmartScriptCrew and DataCollector).  invs is the sequence of invocations  *)
(* begun; the errors list of a CollectedData is an object in `heap`, and its *)
(* `errors` field holds the object's index.  An invocation's fetches are     *)
(* whole steps here.                                                         *)

ProviderOrder == <<"youtube", "trends", "serp">>

InvocationTopic(k) == "topic " \o ToString(k)

\* upstream answers of the side-by-side runs: a failing one and a good one
\* per provider (and an empty video search)
YoutubeAnswers ==
    {[search |-> [kind |-> "timeout", items |-> <<>>], stats |-> StatsNotRequested],
     [search |-> [kind |-> "ok", items |-> <<>>], stats |-> StatsNotRequested],
     [search |-> [kind |-> "ok", items |-> <<[vid |-> "a", snippet |-> "full"]>>],
      stats |-> [kind |-> "ok", entries |-> [v \in VideoIds |-> RawOk]]]}
TrendsAnswers ==
    {r \in TrendsResponses :
        r.kind = "rate_limited" \/ (r.kind = "ok" /\ r.current = 80 /\ r.related = "none")}
SerpAnswers ==
    {r \in SerpResponses :
        r.kind = "error" \/ (r.kind = "ok" /\ r.related_questions = QuestionItems(2))}
AnswersOf(p) == IF p = "youtube" THEN YoutubeAnswers
                ELSE IF p = "trends" THEN TrendsAnswers ELSE SerpAnswers

\* a list object that is everybody's, handed out again
AllocErrorsShared(h) ==
    IF h = <<>> THEN [heap |-> <<  <<>>  >>, ref |-> 1] ELSE [heap |-> h, ref |-> 1]

\* line 46, errors: List[str] = field(default_factory=list): a new list object
AllocErrors(h) == [heap |-> Append(h, <<>>), ref |-> Len(h) + 1]

NotFetched == [ret |-> <<>>, errors |-> <<>>, answer |-> <<>>]

\* a video search keyed on the topic qualified by the platform
QueryPlatformQualified(p, tp, pf) == IF p = "youtube" THEN tp \o " " \o pf ELSE tp

\* lines 120, 123, 126: the query handed to the fetch of provider p is the
\* topic
QueryFor(p, tp, pf) == tp

\* lines 120, 123, 126: the fetch of provider p on the errors list `errors`
FetchOf(p, tp, errors, a) ==
    IF p = "youtube" THEN _fetch_youtube(youtube_key, tp, errors, a.search, a.stats)
    ELSE IF p = "trends" THEN _fetch_trends(pytrends, tp, errors, a)
    ELSE _fetch_serp(serp_key, tp, errors, a)

SetList(d, p, ret) ==
    IF p = "youtube" THEN [d EXCEPT !.youtube_videos = ret]
    ELSE IF p = "trends" THEN [d EXCEPT !.trends = ret]
    ELSE [d EXCEPT !.serp_questions = ret]

\* the snapshot of an invocation with its errors list read from the heap
Deref(d) == [d EXCEPT !.errors = heap[d.errors]]

\* lines 113-117: collect_all(tp, pf) is entered and constructs its
\* CollectedData, while fewer than `limit` invocations have begun
BeginWith(limit, tp, pf) ==
    /\ Len(invs) < limit
    /\ LET new == AllocErrors(heap)
       IN  /\ heap' = new.heap
           /\ invs' = Append(invs,
                    [pc |-> "collecting", called |-> <<>>,
                     data |-> [CollectedData(tp, pf, Timestamp)
                                  EXCEPT !.errors = new.ref],
                     apart |-> [p \in Providers |-> NotFetched]])
    /\ UNCHANGED <<requestVars, toolVars, httpVars>>

\* invocation k is about its own topic
Begin(limit) == BeginWith(limit, InvocationTopic(Len(invs) + 1), "youtube")

\* invocation k runs the fetch of provider p against the upstream answer a.
\* apart[p] keeps what the same fetch returns and reports on a list of its
\* own, and the answer.
Fetch(k, p, a) ==
    LET inv == invs[k]
        query == QueryFor(p, inv.data.topic, inv.data.platform)
        r == FetchOf(p, query, heap[inv.data.errors], a)
        alone == FetchOf(p, query, <<>>, a)
    IN  /\ heap' = [heap EXCEPT ![inv.data.errors] = r.errors]
        /\ invs' = [invs EXCEPT ![k] =
                        [inv EXCEPT !.called = Append(inv.called, p),
                                    !.data = SetList(inv.data, p, r.ret),
                                    !.apart = [inv.apart EXCEPT ![p] =
                                        [ret |-> alone.ret, errors |-> alone.errors,
                                         answer |-> a]],
                                    !.pc = IF r.raised = NoExc THEN "collecting"
                                           ELSE "raised"]]
        /\ UNCHANGED <<requestVars, toolVars, httpVars>>

\* lines 119-126 as written: the next provider in the fixed order
SequentialFetch ==
    \E k \in 1..Len(invs) :
        /\ invs[k].pc = "collecting"
        /\ Len(invs[k].called) < Len(ProviderOrder)
        /\ \E a \in AnswersOf(ProviderOrder[Len(invs[k].called) + 1]) :
                Fetch(k, ProviderOrder[Len(invs[k].called) + 1], a)

\* the three fetches as concurrent processes: whichever has not completed yet
\* completes next
ConcurrentFetch ==
    \E k \in 1..Len(invs) :
        /\ invs[k].pc = "collecting"
        /\ \E p \in Providers \ {invs[k].called[i] : i \in 1..Len(invs[k].called)} :
                \E a \in AnswersOf(p) : Fetch(k, p, a)

\* line 128: return data
ReturnSnapshot ==
    /\ \E k \in 1..Len(invs) :
        /\ invs[k].pc = "collecting"
        /\ Len(invs[k].called) = Len(ProviderOrder)
        /\ invs' = [invs EXCEPT ![k].pc = "returned"]
    /\ UNCHANGED <<requestVars, toolVars, httpVars, heap>>

InitInvocations ==
    /\ youtube_key \in BOOLEAN
    /\ serp_key \in BOOLEAN
    /\ pytrends \in BOOLEAN
    /\ NoRequest
    /\ tool = NoToolRun
    /\ invs = NoInvocations
    /\ heap = <<>>
    /\ http = NoHttp

BeginCollect == Begin(MaxInvocations)

\* invocations interleaved with each other, each as written
NextIsolation ==
    \/ BeginCollect
    \/ SequentialFetch
    \/ ReturnSnapshot

SpecIsolation == InitInvocations /\ [][NextIsolation]_vars

BeginOne == Begin(1)

\* one invocation whose fetches complete in any order
NextConcurrent ==
    \/ BeginOne
    \/ ConcurrentFetch
    \/ ReturnSnapshot

SpecConcurrent == InitInvocations /\ [][NextConcurrent]_vars

\* the two calls that are compared: collect_all(topic, platform) with the
\* same topic and any platform
BeginPlatform == \E tp \in Topics, pf \in Platforms : BeginWith(2, tp, pf)

NextPlatform ==
    \/ BeginPlatform
    \/ SequentialFetch
    \/ ReturnSnapshot

SpecPlatform == InitInvocations /\ [][NextPlatform]_vars

----------------------------------------------------------------------------
(* The two sequential crews from kickoff on: SmartScriptCrew after a        *)
(* collection that found one video and no trends (run line 314), and        *)
(* FullContentCrew, which collects nothing (full_crew.py line 103)          *)

InitCrews ==
    /\ youtube_key = TRUE
    /\ serp_key = TRUE
    /\ pytrends = TRUE
    /\ topic \in Topics
    /\ platform \in Platforms
    /\ pc = "kickoff"
    /\ \/ /\ tasks = <<AnalysisTask, WritingTask(platform)>>
          /\ data = [CollectedData(topic, platform, Timestamp) EXCEPT
                        !.youtube_videos = LongVideos(1),
                        !.errors = <<"No Google Trends data for: " \o topic>>]
          /\ outcome = [p \in Providers |-> IF p = "youtube" THEN "ok" ELSE "empty"]
          /\ appended = [NoneAppended EXCEPT
                            !["trends"] = <<"No Google Trends data for: " \o topic>>]
          /\ calls = <<"CollectedData", "_fetch_youtube", "_fetch_trends", "_fetch_serp">>
       \/ /\ tasks = FullTasks
          /\ data = CollectedData("", "", "")
          /\ outcome = NoOutcome
          /\ appended = NoneAppended
          /\ calls = <<>>
    /\ steps = <<>>
    /\ exception = NoExc
    /\ run_result = NoRunResult
    /\ response = NoResponse
    /\ search_items = <<>>
    /\ tool = NoToolRun
    /\ invs = NoInvocations
    /\ heap = <<>>
    /\ http = NoHttp

NextCrews ==
    \/ StartTask
    \/ FinishTask
    \/ RouteRespond

SpecCrews == InitCrews /\ [][NextCrews]_vars

----------------------------------------------------------------------------
(* The route handlers (api/routes/agent_routes.py, analytics_routes.py,     *)
(* instagram_routes.py): http is one HTTP request, http.pc going            *)
(* idle -> handling -> (constructed ->) ran / raised -> answered.  A crew   *)
(* route runs its crew, which returns or raises a generation-backend        *)
(* failure; an instagram route constructs InstagramService and calls it.    *)

AgentRoutes == {"/topics", "/research", "/script", "/generate", "/smart-script"}
AnalyticsRoutes == {"/analytics/trends", "/analytics/competitors",
                    "/analytics/predictions", "/analytics/seo"}
InstagramRoutes == {"/instagram/trending/hashtags", "/instagram/trending/niche",
                    "/instagram/hashtag/search"}

\* str(e) of the failures a crew's backend call raises
RouteFailures == BackendFailures \cup {"No API key provided",
                                       "api key not found in environment",
                                       "overloaded_error: Overloaded"}

\* str(e) of what a request of InstagramService to RapidAPI raises:
\* httpx.HTTPError (raise_for_status, a timeout) or, from response.json(), a
\* ValueError
InstagramHTTPErrors ==
    {"Client error '403 Forbidden' for url 'https://instagram-bulk-profile-scrapper.p.rapidapi.com/trending/hashtags'",
     "timed out"}
InstagramOtherErrors == {"Expecting value: line 1 column 1 (char 0)"}

\* str(error)[:n]
StrPrefix(s, n) == SubSeq(s, 1, IF Len(s) < n THEN Len(s) ELSE n)

HTTPException(status, detail) ==
    [status |-> status, success |-> FALSE, errors |-> <<>>, detail |-> detail]

\* analytics_routes.py lines 49-62
handle_error(msg) ==
    IF Contains(msg, "authentication_error") \/ Contains(msg, "401")
        THEN HTTPException(503, "LLM service authentication failed. Check API key configuration.")
    ELSE HTTPException(500, "An error occurred: " \o StrPrefix(msg, 200))

\* the `except Exception as e` of the route: agent_routes.py lines 140-141
\* (and 159, 182, 215, 273), analytics_routes.py lines 83-84 (and 102, 121,
\* 140), instagram_routes.py lines 59-60 (and 86, 112)
RouteExcept(route, msg) ==
    IF route \in AgentRoutes THEN handle_crew_error(msg)
    ELSE IF route \in AnalyticsRoutes THEN handle_error(msg)
    ELSE HTTPException(500, msg)

\* the message of the success response of a route
SuccessMessage(route) ==
    CASE route = "/topics" -> "Topics found successfully"
      [] route = "/research" -> "Research completed successfully"
      [] route = "/script" -> "Script generated successfully"
      [] route = "/generate" -> "Full content generated successfully"
      [] route = "/smart-script" -> "Smart script generated with real data"
      [] route = "/analytics/trends" -> "Trend analysis completed successfully"
      [] route = "/analytics/competitors" -> "Competitor analysis completed successfully"
      [] route = "/analytics/predictions" -> "Trend predictions generated successfully"
      [] route = "/analytics/seo" -> "SEO optimization completed successfully"
      [] route = "/instagram/trending/niche" -> "Trending data fetched for niche: n"
      [] OTHER -> ""

\* a request reaches its handler; RAPIDAPI_KEY is set or not
RouteEnter ==
    /\ http.pc = "idle"
    /\ \E r \in AgentRoutes \cup AnalyticsRoutes \cup InstagramRoutes, k \in BOOLEAN :
        http' = [http EXCEPT !.route = r, !.rapidapi_key = k, !.pc = "handling"]
    /\ UNCHANGED <<requestVars, toolVars, invVars>>

\* crew = ...Crew(); result = crew.run(...): the crew returns or a backend
\* call of it raises
CrewRun ==
    /\ http.pc = "handling"
    /\ http.route \in AgentRoutes \cup AnalyticsRoutes
    /\ \E b \in {"ok"} \cup RouteFailures :
        http' = IF b = "ok" THEN [http EXCEPT !.pc = "ran"]
                ELSE [http EXCEPT !.pc = "raised", !.raised = b]
    /\ UNCHANGED <<requestVars, toolVars, invVars>>

\* instagram_service.py lines 21-26: InstagramService()
InstagramServiceInit ==
    /\ http.pc = "handling"
    /\ http.route \in InstagramRoutes
    /\ http' = IF ~http.rapidapi_key
                  THEN [http EXCEPT !.pc = "raised",
                            !.raised = "RAPIDAPI_KEY environment variable is required"]
               ELSE [http EXCEPT !.pc = "constructed"]
    /\ UNCHANGED <<requestVars, toolVars, invVars>>

\* what the service method of the route raises when its request raised e:
\* lines 61-62, 91-92, 117-118 wrap an httpx.HTTPError, lines 143-144 wrap
\* every exception once more
ServiceRaises(route, request, e) ==
    LET inner == IF e \in InstagramOtherErrors THEN e
                 ELSE IF request = "hashtags" THEN "Failed to fetch trending hashtags: " \o e
                 ELSE IF request = "topics" THEN "Failed to fetch trending topics: " \o e
                 ELSE "Failed to search hashtag: " \o e
    IN  IF route = "/instagram/trending/niche"
            THEN "Failed to get trending data for niche 'n': " \o inner
        ELSE inner

\* the requests the service method of the route sends, in order
ServiceRequests(route) ==
    IF route = "/instagram/trending/hashtags" THEN {"hashtags"}
    ELSE IF route = "/instagram/trending/niche" THEN {"hashtags", "topics"}
    ELSE {"search"}

\* instagram_service.py lines 28-144: the service method called by the route
\* returns, or one of its requests raises
InstagramCall ==
    /\ http.pc = "constructed"
    /\ \/ http' = [http EXCEPT !.pc = "ran"]
       \/ \E q \in ServiceRequests(http.route),
             e \in InstagramHTTPErrors \cup InstagramOtherErrors :
            http' = [http EXCEPT !.pc = "raised",
                                 !.raised = ServiceRaises(http.route, q, e)]
    /\ UNCHANGED <<requestVars, toolVars, invVars>>

\* the handler returns its response model or raises the HTTPException of its
\* except clause
RouteAnswer ==
    /\ http.pc \in {"ran", "raised"}
    /\ http' = [http EXCEPT
                    !.pc = "answered",
                    !.response =
                        IF http.pc = "raised" THEN RouteExcept(http.route, http.raised)
                        ELSE [status |-> 200, success |-> TRUE, errors |-> <<>>,
                              detail |-> SuccessMessage(http.route)]]
    /\ UNCHANGED <<requestVars, toolVars, invVars>>

InitRoutes ==
    /\ youtube_key = FALSE
    /\ serp_key = FALSE
    /\ pytrends = FALSE
    /\ NoRequest
    /\ tool = NoToolRun
    /\ invs = NoInvocations
    /\ heap = <<>>
    /\ http = NoHttp

NextRoutes ==
    \/ RouteEnter
    \/ CrewRun
    \/ InstagramServiceInit
    \/ InstagramCall
    \/ RouteAnswer

SpecRoutes == InitRoutes /\ [][NextRoutes]_vars

----------------------------------------------------------------------------
(* YouTubeTool._run (tools/youtube_api.py lines 16-37), a run of the tool   *)
(* machine: the key is read and sent whether it is set or not, there is no  *)
(* try block, and the text returned is str(results)                         *)

\* what GET /youtube/v3/search answers the tool: the request raises, the
\* answer is an error payload (no "items"), or items, each with a snippet
\* or ("no snippet") without one; a request without a key is not answered
\* with items
YouTubeToolResponses(configured) ==
    {[kind |-> k, values |-> <<>>] : k \in {"exception", "error"}}
    \cup (IF configured
             THEN {[kind |-> "ok", values |-> v] :
                        v \in SeqsUpTo(UpstreamValues \cup {"no snippet"}, MaxToolItems)}
          ELSE {})

\* lines 17-37
YouTubeToolRun ==
    /\ tool.pc = "idle"
    /\ \E c \in BOOLEAN :
        \E resp \in YouTubeToolResponses(c) :
            LET t == [tool EXCEPT !.name = "youtube", !.configured = c,
                                  !.requests = <<"youtube/v3/search">>]
            IN  tool' =
                    IF resp.kind = "exception" \/ "no snippet" \in Range(resp.values)
                        THEN [t EXCEPT !.pc = "raised", !.failed = TRUE]
                    ELSE [t EXCEPT !.pc = "done", !.upstream = resp.values,
                                   !.failed = (resp.kind = "error"),
                                   !.result = [heading |-> "", error |-> "",
                                               values |-> resp.values]]
    /\ UNCHANGED <<requestVars, invVars, httpVars>>

\* the clients that are built per request or per tool call: the route
\* handlers with InstagramService, and YouTubeTool
NextClients ==
    \/ RouteEnter
    \/ CrewRun
    \/ InstagramServiceInit
    \/ InstagramCall
    \/ RouteAnswer
    \/ YouTubeToolRun

SpecClients == InitRoutes /\ [][NextClients]_vars

----------------------------------------------------------------------------
(* EngagementAnalyzerTool (tools/engagement_analyzer.py).  In this machine  *)
(* `tool` holds the arguments of _run and what each call of it with these   *)
(* arguments returned.  Rates and multipliers are exact fractions: the      *)
(* baseline in tenths, niche multiplier and trend score in hundredths, the  *)
(* quality score in 1/800; binary floating point is not modelled.           *)

EngagementTopics == {"AI automation tools", "gardening basics", "how to knit"}
EngagementPlatforms == {"youtube", "TikTok", "podcast"}
EngagementNiches == {"", "tech", "cooking"}
Durations == {"", "30 seconds", "10 minutes"}

EngagementArgs ==
    [topic : EngagementTopics, platform : EngagementPlatforms, niche : EngagementNiches,
     has_hook : BOOLEAN, has_visuals : BOOLEAN, video_duration : Durations]

\* the environment at the time of a call: YOUTUBE_API_KEY and SERP_API_KEY set
\* or not
Environments == [youtube_key : BOOLEAN, serp_key : BOOLEAN]

\* requests.get of _check_youtube_trends: raises, or a status and the number
\* of items of the answer
YoutubeTrendAnswers ==
    {[kind |-> "exception", status |-> 0, count |-> 0],
     [kind |-> "answer", status |-> 403, count |-> 0]}
    \cup {[kind |-> "answer", status |-> 200, count |-> n] : n \in {0, 5, 8}}

\* requests.get of _check_google_trends: raises, or a status
GoogleTrendAnswers ==
    {[kind |-> "exception", status |-> 0], [kind |-> "answer", status |-> 403],
     [kind |-> "answer", status |-> 200]}

\* lines 93-105, in tenths of a percent
_get_platform_baseline(pf) ==
    LET p == str_lower(pf)
    IN  CASE p = "youtube" -> 35
          [] p = "youtube shorts" -> 52
          [] p = "instagram" -> 28
          [] p = "instagram reels" -> 38
          [] p = "tiktok" -> 55
          [] p = "twitter" -> 9
          [] p = "linkedin" -> 21
          [] p = "facebook" -> 15
          [] OTHER -> 30

\* any(word in text for word in words)
AnyWordIn(words, text) == \E w \in words : Contains(text, w)

\* lines 107-130, in hundredths
_get_niche_multiplier(niche, pf) ==
    LET niche_lower == str_lower(niche)
    IN  IF AnyWordIn({"ai", "automation", "technology", "tech"}, niche_lower) THEN 130
        ELSE IF AnyWordIn({"finance", "money", "business", "entrepreneur"}, niche_lower)
            THEN 125
        ELSE IF AnyWordIn({"fitness", "health", "wellness"}, niche_lower) THEN 115
        ELSE IF AnyWordIn({"entertainment", "comedy", "gaming"}, niche_lower) THEN 140
        ELSE IF AnyWordIn({"education", "tutorial", "how-to", "learning"}, niche_lower)
            THEN 120
        ELSE IF AnyWordIn({"marketing", "social media", "content"}, niche_lower) THEN 115
        ELSE 100

\* lines 158-187, in hundredths; 0 stands for "no score"
_check_youtube_trends(answer) ==
    IF answer.kind = "exception" \/ answer.status # 200 THEN 0
    ELSE IF answer.count >= 8 THEN 130
    ELSE IF answer.count >= 5 THEN 115
    ELSE 95

\* lines 189-207, in hundredths
_check_google_trends(answer) ==
    IF answer.kind = "answer" /\ answer.status = 200 THEN 120 ELSE 0

\* lines 209-236, in hundredths
_keyword_trend_score(tp, niche) ==
    LET topic_lower == str_lower(tp)
        niche_lower == str_lower(niche)
        trending_keywords == {"ai", "chatgpt", "automation", "2025", "new", "latest",
                              "viral", "trending", "secret", "hack", "exposed"}
        evergreen_keywords == {"how to", "tutorial", "guide", "tips", "learn",
                               "beginner", "complete", "ultimate", "best"}
        trend_count == Cardinality({kw \in trending_keywords :
                            Contains(topic_lower, kw) \/ Contains(niche_lower, kw)})
        evergreen_count == Cardinality({kw \in evergreen_keywords :
                                Contains(topic_lower, kw)})
    IN  IF trend_count >= 2 THEN 130
        ELSE IF trend_count = 1 THEN 115
        ELSE IF evergreen_count >= 1 THEN 110
        ELSE 100

\* lines 132-156, in hundredths
_get_trend_score(tp, niche, env, yt, serp) ==
    IF env.youtube_key /\ _check_youtube_trends(yt) > 0 THEN _check_youtube_trends(yt)
    ELSE IF env.serp_key /\ _check_google_trends(serp) > 0 THEN _check_google_trends(serp)
    ELSE _keyword_trend_score(tp, niche)

\* lines 238-262, in 1/800 (1.0 is 800, the cap 1.6 is 1280)
_calculate_quality_score(has_hook, has_visuals, duration, pf) ==
    LET duration_lower == str_lower(duration)
        p == str_lower(pf)
        fits == /\ duration # ""
                /\ IF p \in {"youtube shorts", "tiktok", "instagram reels"}
                      THEN AnyWordIn({"15", "30", "60"}, duration_lower)
                   ELSE /\ Contains(p, "youtube")
                        /\ AnyWordIn({"8", "10", "12"}, duration_lower)
        score == (800 * (IF has_hook THEN 125 ELSE 100) * (IF has_visuals THEN 115 ELSE 100)
                      * (IF fits THEN 110 ELSE 100)) \div 1000000
    IN  IF score < 1280 THEN score ELSE 1280

\* round(n / d) to the nearest integer, a tie to the even one
RoundDiv(n, d) ==
    LET q == n \div d
        r == n % d
    IN  IF 2 * r > d THEN q + 1
        ELSE IF 2 * r < d THEN q
        ELSE IF q % 2 = 0 THEN q ELSE q + 1

\* the unit of estimated_rate: 1 percent is 10 * 20 * 20 * 800
RateUnit == 3200000

\* lines 40-88: the estimate, its bounds in tenths of a percent, and the
\* factors and the recommendation the text lists
EngagementEstimate(a, env, yt, serp) ==
    LET baseline == _get_platform_baseline(a.platform)
        niche_multiplier == _get_niche_multiplier(a.niche, a.platform)
        trend_score == _get_trend_score(a.topic, a.niche, env, yt, serp)
        quality_score == _calculate_quality_score(a.has_hook, a.has_visuals,
                                                  a.video_duration, a.platform)
        product == baseline * (niche_multiplier \div 5) * (trend_score \div 5)
                        * quality_score
        estimated_rate == IF product < RateUnit \div 2 THEN RateUnit \div 2
                          ELSE IF product > 15 * RateUnit THEN 15 * RateUnit
                          ELSE product
    IN  [lower_bound |-> RoundDiv(estimated_rate * 17, 2 * RateUnit),
         upper_bound |-> RoundDiv(estimated_rate * 23, 2 * RateUnit),
         baseline |-> baseline,
         niche_multiplier |-> niche_multiplier,
         trend_score |-> trend_score,
         quality_score |-> quality_score,
         recommendation |-> IF estimated_rate < 3 * RateUnit THEN "improve"
                            ELSE IF estimated_rate < 5 * RateUnit THEN "good"
                            ELSE "high"]

\* one more call of _run with the arguments of the machine, in the
\* environment and against the upstream answers of its moment
EngagementRun ==
    /\ tool.pc = "idle"
    /\ Len(tool.returned) < MaxCalls
    /\ \E env \in Environments, yt \in YoutubeTrendAnswers, serp \in GoogleTrendAnswers :
        tool' = [tool EXCEPT !.returned =
                    Append(tool.returned, EngagementEstimate(tool.args, env, yt, serp))]
    /\ UNCHANGED <<requestVars, invVars, httpVars>>

InitEngagement ==
    /\ youtube_key = FALSE
    /\ serp_key = FALSE
    /\ pytrends = FALSE
    /\ NoRequest
    /\ \E a \in EngagementArgs :
        tool = [name |-> "engagement", pc |-> "idle", args |-> a, returned |-> <<>>]
    /\ invs = NoInvocations
    /\ heap = <<>>
    /\ http = NoHttp

NextEngagement == EngagementRun

SpecEngagement == InitEngagement /\ [][NextEngagement]_vars

----------------------------------------------------------------------------
(* HashtagGeneratorTool (tools/hashtag_generator.py).  In this machine      *)
(* `tool` holds the arguments of a _run and, once it has returned, the list *)
(* of hashtags the returned text joins with ", ".                           *)

HashtagTopics == {"", "viral", "AI automation tools for business",
                  "Home cooking, made simple."}
HashtagPlatforms == {"youtube", "Twitter", "podcast"}
HashtagNiches == {"", "ai", "home cooking"}

\* the "query" of the i-th entry of "related_queries"; "" stands for an
\* entry without that key
RelatedQueryAt(i) ==
    CASE i = 1 -> "viral"
      [] i = 2 -> "ai tools"
      [] i = 3 -> "youtube growth"
      [] i = 4 -> "trending"
      [] i = 5 -> "cooking hacks"
      [] i = 6 -> ""
      [] OTHER -> "query " \o ToString(i)

\* requests.get of _get_trending_hashtags: raises, a status other than 200,
\* 200 without "related_queries", 200 with "related_queries" a dict (no
\* slice of it can be taken), or 200 with a list of up to MaxQueries entries
TrendingResponses ==
    {[kind |-> k, queries |-> <<>>] : k \in {"exception", "status_403", "no_key", "dict"}}
    \cup {[kind |-> "list", queries |-> [i \in 1..n |-> RelatedQueryAt(i)]] :
            n \in 0..MaxQueries}

\* s.replace(c, "") for a character c
RECURSIVE Without(_, _)
Without(s, c) ==
    IF s = "" THEN ""
    ELSE (IF SubSeq(s, 1, 1) = c THEN "" ELSE SubSeq(s, 1, 1))
            \o Without(SubSeq(s, 2, Len(s)), c)

\* s.split(): the runs of characters between spaces
RECURSIVE Split(_)
Split(s) ==
    IF s = "" THEN <<>>
    ELSE IF SubSeq(s, 1, 1) = " " THEN Split(SubSeq(s, 2, Len(s)))
    ELSE LET ends == {i \in 1..Len(s) : SubSeq(s, i, i) = " "}
             n == IF ends = {} THEN Len(s)
                  ELSE (CHOOSE i \in ends : \A j \in ends : i <= j) - 1
         IN  <<SubSeq(s, 1, n)>> \o Split(SubSeq(s, n + 1, Len(s)))

\* w.capitalize(): the first character in upper case, the others in lower
Capitalize(w) ==
    IF w = "" THEN ""
    ELSE LET ch == SubSeq(w, 1, 1)
             up == IF \E i \in 1..26 : LowerChars[i] = ch
                      THEN UpperChars[CHOOSE i \in 1..26 : LowerChars[i] = ch]
                   ELSE ch
         IN  up \o str_lower(SubSeq(w, 2, Len(w)))

\* f"#{''.join([w.capitalize() for w in words])}"
RECURSIVE JoinCapitalized(_)
JoinCapitalized(words) ==
    IF words = <<>> THEN ""
    ELSE Capitalize(Head(words)) \o JoinCapitalized(Tail(words))

\* [f"#{word.capitalize()}" for word in words]
HashtagEach(words) == [i \in 1..Len(words) |-> "#" \o Capitalize(words[i])]

\* a list handed on with its duplicates
KeptWithDuplicates(l) == l

\* list(dict.fromkeys(l)): the first occurrence of every element, in order
RECURSIVE dict_fromkeys(_)
dict_fromkeys(l) ==
    IF l = <<>> THEN <<>>
    ELSE LET init == dict_fromkeys(SubSeq(l, 1, Len(l) - 1))
             last == l[Len(l)]
         IN  IF last \in Range(init) THEN init ELSE Append(init, last)

\* lines 63-87
_generate_base_hashtags(tp, niche, pf) ==
    LET words == Split(Without(Without(str_lower(tp), ","), "."))
        whole == IF Len(words) <= 3 THEN <<"#" \o JoinCapitalized(words)>> ELSE <<>>
        important == SelectSeq(words, LAMBDA w :
                        Len(w) > 4 /\ w \notin {"the", "and", "for", "with", "about"})
        niche_words == Split(str_lower(niche))
        of_niche == IF niche = "" THEN <<>>
                    ELSE <<"#" \o JoinCapitalized(niche_words)>>
                            \o HashtagEach(SelectSeq(niche_words, LAMBDA w : Len(w) > 4))
    IN  Take(whole \o HashtagEach(important) \o of_niche, 5)

\* lines 89-123
_get_trending_hashtags(serp_api_key, resp) ==
    IF ~serp_api_key THEN <<>>
    ELSE IF resp.kind # "list" THEN <<>>
    ELSE HashtagEach(
            LET shown == SelectSeq(Take(resp.queries, 5), LAMBDA q : q # "")
            IN  [i \in 1..Len(shown) |-> Without(shown[i], " ")])

\* lines 125-139
_get_platform_specific_tags(pf, niche) ==
    LET known == pf \in {"youtube", "instagram", "tiktok", "twitter", "linkedin"}
        platform_tags ==
            CASE pf = "youtube" -> <<"#YouTube", "#YouTuber", "#Subscribe", "#Viral", "#Trending">>
              [] pf = "instagram" -> <<"#InstaGood", "#Reels", "#Viral", "#Explore", "#Trending">>
              [] pf = "tiktok" -> <<"#TikTok", "#Viral", "#ForYou", "#FYP", "#Trending">>
              [] pf = "twitter" -> <<"#Twitter", "#Trending", "#Viral">>
              [] pf = "linkedin" -> <<"#LinkedIn", "#Professional", "#Business", "#Industry",
                                      "#CareerTips">>
              [] OTHER -> <<>>
    IN  IF Contains(str_lower(niche), "ai") \/ Contains(str_lower(niche), "automation")
            THEN platform_tags \o <<"#AI", "#Automation", "#Technology", "#Innovation",
                                    "#DigitalTransformation">>
        ELSE Take(IF known THEN platform_tags
                  ELSE <<"#ContentCreator", "#DigitalMarketing">>, 4)

\* lines 141-148
_get_fallback_hashtags(tp, niche, pf) ==
    <<"#ContentCreation", "#SocialMedia", "#Marketing", "#Growth", "#Tips", "#Tutorial",
      "#HowTo", "#Business", "#Strategy", "#Success">>

\* lines 150-170: the list the rule-based text joins
_fallback_generation(tp, niche, pf) ==
    Take(dict_fromkeys(_generate_base_hashtags(tp, niche, pf)
                           \o _get_platform_specific_tags(pf, niche)
                           \o _get_fallback_hashtags(tp, niche, pf)),
         12)

\* lines 29-51: the hashtags before the first cut, and the list the text
\* joins
HashtagsOfRun(a, serp_api_key, resp) ==
    LET platform_lower == str_lower(a.platform)
        trending == _get_trending_hashtags(serp_api_key, resp)
        hashtags == _generate_base_hashtags(a.topic, a.niche, platform_lower)
                        \o trending
                        \o _get_platform_specific_tags(platform_lower, a.niche)
        unique_hashtags == Take(dict_fromkeys(hashtags), 15)
    IN  [trending |-> Len(trending),
         found |-> Len(dict_fromkeys(hashtags)),
         hashtags |->
            IF Len(unique_hashtags) < 8
                THEN Take(dict_fromkeys(unique_hashtags
                            \o _get_fallback_hashtags(a.topic, a.niche, platform_lower)), 15)
            ELSE unique_hashtags]

\* lines 24-61: a call of _run, with SERP_API_KEY set or not, against an
\* upstream answer.  `raised` says that an exception left the try block, on
\* which the except clause returns the rule-based text; no statement of the
\* block raises on str arguments.
HashtagRun ==
    /\ tool.pc = "idle"
    /\ \E k \in BOOLEAN, resp \in TrendingResponses, raised \in BOOLEAN :
        LET r == HashtagsOfRun(tool.args, k, resp)
        IN  tool' = [tool EXCEPT
                        !.pc = "done",
                        !.rule_based = raised,
                        !.trending = IF raised THEN 0 ELSE r.trending,
                        !.found = IF raised THEN 0 ELSE r.found,
                        !.hashtags = IF raised
                                        THEN _fallback_generation(tool.args.topic,
                                                tool.args.niche, tool.args.platform)
                                     ELSE r.hashtags]
    /\ UNCHANGED <<requestVars, invVars, httpVars>>

InitHashtags ==
    /\ youtube_key = FALSE
    /\ serp_key = FALSE
    /\ pytrends = FALSE
    /\ NoRequest
    /\ \E a \in [topic : HashtagTopics, platform : HashtagPlatforms, niche : HashtagNiches] :
        tool = [name |-> "hashtags", pc |-> "idle", args |-> a, rule_based |-> FALSE,
                trending |-> 0, found |-> 0, hashtags |-> <<>>]
    /\ invs = NoInvocations
    /\ heap = <<>>
    /\ http = NoHttp

NextHashtags == HashtagRun

SpecHashtags == InitHashtags /\ [][NextHashtags]_vars

----------------------------------------------------------------------------
(* Properties *)

ListOf(p) == IF p = "youtube" THEN data.youtube_videos
             ELSE IF p = "trends" THEN data.trends
             ELSE data.serp_questions

Fetched(p) == outcome[p] # "not_fetched"

\* collect_all has returned its snapshot
Collected == pc \in {"collected", "kickoff", "run_returned",
                     "run_raised", "responded"}

NoListHasRecords ==
    data.youtube_videos = <<>> /\ data.trends = <<>> /\ data.serp_questions = <<>>

\* C1: whatever the upstream of a provider does (missing key, error payload,
\* empty result, network exception, malformed response), no fetch raises out
\* of collect_all: collect_all is never left by an exception, and an
\* exception is only ever in flight once the snapshot has been returned and
\* the analysis task built.
C1_ProvidersNeverAbortCollect ==
    /\ pc # "collect_raised"
    /\ exception # NoExc => (\A p \in Providers : Fetched(p)) /\ tasks # <<>>

\* C1 witness: a collection that met a malformed video response, a trends
\* network failure and a malformed search response, and returned.
C1_Witness ==
    /\ pc = "collected"
    /\ outcome["youtube"] = "malformed"
    /\ outcome["trends"] = "network"
    /\ outcome["serp"] = "malformed"
    /\ Len(data.errors) = 3

\* C2 (as claimed): a fetch that ends with an empty list has appended exactly
\* one error string, and a fetch that met a failure condition returns an
\* empty list with exactly one string appended.
C2_EmptyFetchAppendsOneError ==
    \A p \in Providers :
        /\ (Fetched(p) /\ ListOf(p) = <<>>) => Len(appended[p]) = 1
        /\ (Fetched(p) /\ outcome[p] # "ok") => ListOf(p) = <<>> /\ Len(appended[p]) = 1

\* C3 (as claimed): when all three providers were answered with a forced-empty
\* upstream response, the snapshot is unusable and holds exactly 3 errors.
C3_ForcedEmptyThreeErrors ==
    (Collected /\ \A p \in Providers : outcome[p] = "empty")
        => ~has_data(data) /\ Len(data.errors) = 3

\* C4: in every returned snapshot has_data() is true exactly when one of the
\* three record lists is non-empty, and it is the same with the errors list
\* emptied.
C4_HasDataIffSomeList ==
    Collected =>
        /\ has_data(data) <=> ~NoListHasRecords
        /\ has_data(data) <=> has_data([data EXCEPT !.errors = <<>>])

\* C4 witness: a returned snapshot with questions only and two provider
\* errors, which has_data() accepts.
C4_Witness ==
    /\ pc = "collected"
    /\ data.youtube_videos = <<>> /\ data.trends = <<>> /\ data.serp_questions # <<>>
    /\ Len(data.errors) = 2
    /\ has_data(data)

\* C5: after a collection that left all three lists empty, run creates no task
\* and starts no generation step; it returns success = False with the
\* accumulated errors, and the route answers success = False with them.
C5_UnusableSnapshotShortCircuits ==
    (Collected /\ NoListHasRecords) =>
        /\ tasks = <<>> /\ steps = <<>>
        /\ pc \in {"collected", "run_returned", "responded"}
        /\ exception = NoExc
        /\ pc # "collected" =>
              run_result.returned /\ ~run_result.success
              /\ run_result.errors = data.errors
        /\ pc = "responded" =>
              ~response.success /\ response.errors = data.errors
              /\ response.detail = "API data collection failed. Check your API keys."

\* C5 witness: the route has answered a request whose collection found nothing.
C5_Witness ==
    /\ pc = "responded"
    /\ NoListHasRecords
    /\ ~response.success
    /\ Len(response.errors) >= 2
    /\ tasks = <<>> /\ steps = <<>>

\* C6: with the video key absent, the trends client unavailable and the search
\* key absent, the snapshot is unusable and its errors are exactly the three
\* configuration messages, in provider order.
C6_MissingConfigThreeErrors ==
    (Collected /\ ~youtube_key /\ ~pytrends /\ ~serp_key) =>
        /\ ~has_data(data)
        /\ NoListHasRecords
        /\ data.errors = <<"YOUTUBE_API_KEY not set",
                           "pytrends not installed (pip install pytrends)",
                           "SERP_API_KEY not set">>

\* C6 witness: collect_all has returned with no provider configured.
C6_Witness ==
    /\ pc = "collected"
    /\ ~youtube_key /\ ~pytrends /\ ~serp_key
    /\ \A p \in Providers : outcome[p] = "no_credential"
    /\ Len(data.errors) = 3

\* C7 (as claimed): for every usable snapshot, run builds both tasks and no
\* exception leaves run before a generation step has started.
C7_UsableSnapshotReachesGeneration ==
    (Collected /\ pc # "collected" /\ has_data(data)) =>
        /\ Len(tasks) = 2
        /\ exception # NoExc => steps # <<>>

NumTokens(ctx) ==
    UNION {{ctx[l][k].v : k \in {j \in 1..Len(ctx[l]) : ctx[l][j].t = "num"}} :
            l \in 1..Len(ctx)}

\* n is the literal value of a numeric field of some record of the snapshot
IsFieldValue(n, d) ==
    \/ \E i \in 1..Len(d.youtube_videos) :
            n = d.youtube_videos[i].view_count \/ n = d.youtube_videos[i].like_count
    \/ \E i \in 1..Len(d.trends) :
            n = d.trends[i].current_interest \/ 10 * n = d.trends[i].average_interest

\* C9 (as claimed): once the analysis task has rendered the snapshot, every
\* numeric value in the rendered context is the literal value of a field of
\* some record of the snapshot, the trend average included.
C9_RenderedNumbersAreLiteral ==
    tasks # <<>> =>
        \A chars \in NumTokens(to_prompt_context(data)) :
            IsFieldValue(ReadNumber(chars), data)

\* the lines of a rendered context that open a section, by section
DataHead == [youtube |-> <<Text("### TOP YOUTUBE VIDEOS (REAL):")>>,
             trends |-> <<Text("### GOOGLE TRENDS (REAL):")>>,
             serp |-> <<Text("### PEOPLE ALSO ASK (REAL):")>>]
NoDataMarker == [youtube |-> <<Text("### YOUTUBE: No data (API issue)")>>,
                 trends |-> <<Text("### GOOGLE TRENDS: No data")>>,
                 serp |-> <<Text("### SERP QUESTIONS: No data")>>]
ErrorHead == <<Text("### DATA COLLECTION ISSUES:")>>

Positions(ctx, line) == {i \in 1..Len(ctx) : ctx[i] = line}

\* where the section of provider p opens in ctx (0 if nowhere)
SectionStart(ctx, p) ==
    LET at == Positions(ctx, DataHead[p]) \cup Positions(ctx, NoDataMarker[p])
    IN  IF at = {} THEN 0 ELSE CHOOSE i \in at : \A j \in at : i <= j

\* C11: the rendered context of every snapshot collect_all hands to run (the
\* snapshot does not change afterwards) opens with the header
\* (topic, platform, timestamp), followed by the videos, trends and questions
\* sections in that order; each data section is opened exactly once, by its
\* data heading when its list has records and by its no-data marker when it
\* has none; the issues section comes last and lists every error verbatim,
\* once each, in accumulator order, and is absent exactly when there are no
\* errors.
C11_SectionsInFixedOrder ==
    pc = "collected" =>
        LET ctx == to_prompt_context(data)
            n == Len(data.errors)
            e == Len(ctx) - n
        IN  /\ Len(ctx) >= 7
            /\ ctx[1] = <<Text("=== REAL DATA COLLECTED ===")>>
            /\ ctx[2] = <<Text("Topic: "), Text(data.topic)>>
            /\ ctx[3] = <<Text("Platform: "), Text(data.platform)>>
            /\ ctx[4] = <<Text("Collected: "), Text(data.collected_at)>>
            /\ \A p \in Providers :
                    /\ Cardinality(Positions(ctx, DataHead[p])) =
                            (IF ListOf(p) # <<>> THEN 1 ELSE 0)
                    /\ Cardinality(Positions(ctx, NoDataMarker[p])) =
                            (IF ListOf(p) = <<>> THEN 1 ELSE 0)
                    /\ ListOf(p) # <<>> =>
                            ctx[SectionStart(ctx, p) + 1] \notin
                                {DataHead[q] : q \in Providers}
                                \cup {NoDataMarker[q] : q \in Providers} \cup {ErrorHead}
            /\ SectionStart(ctx, "youtube") = 5
            /\ SectionStart(ctx, "youtube") < SectionStart(ctx, "trends")
            /\ SectionStart(ctx, "trends") < SectionStart(ctx, "serp")
            /\ IF n = 0 THEN Positions(ctx, ErrorHead) = {}
               ELSE /\ Positions(ctx, ErrorHead) = {e}
                    /\ SectionStart(ctx, "serp") < e
                    /\ \A i \in 1..n : ctx[e + i] = <<Text("- "), Text(data.errors[i])>>

\* C11 witness: a returned snapshot with no videos, no trends, questions and
\* two provider errors.
C11_Witness ==
    /\ pc = "collected"
    /\ data.youtube_videos = <<>> /\ data.trends = <<>> /\ data.serp_questions # <<>>
    /\ Len(data.errors) = 2
    /\ data.errors[1] # data.errors[2]

Min(a, b) == IF a < b THEN a ELSE b

\* the titles of the numbered video entries of a rendered context, in order
ShownTitles(ctx) ==
    LET entries == SelectSeq(ctx, LAMBDA line : line[1].t = "index")
    IN  [i \in 1..Len(entries) |-> [index |-> entries[i][1].v, title |-> entries[i][3].v[1]]]

\* the lines of the questions section of a rendered context
ShownQuestions(ctx) ==
    LET from == SectionStart(ctx, "serp") + 1
        heads == Positions(ctx, ErrorHead)
        to == IF heads = {} THEN Len(ctx) ELSE (CHOOSE e \in heads : TRUE) - 1
    IN  IF ctx[from - 1] = NoDataMarker["serp"] THEN <<>> ELSE SubSeq(ctx, from, to)

\* per trend record, the queries its "Rising queries" line names
ShownRising(ctx) ==
    LET lines == SelectSeq(ctx, LAMBDA line : line[1] = Text("- Rising queries: "))
    IN  [i \in 1..Len(lines) |->
            SelectSeq(Tail(lines[i]), LAMBDA tok : tok # Text(", "))]

\* C12: the rendered context holds the first 10 videos of the snapshot (all of
\* them when there are fewer), the first 10 questions and, per trend record,
\* its first 5 rising queries, in snapshot order, whatever the lengths of the
\* lists.
C12_RenderedListsAreCapped ==
    tasks # <<>> =>
        LET ctx == to_prompt_context(data)
            v == data.youtube_videos
            q == data.serp_questions
        IN  /\ ShownTitles(ctx) =
                    [i \in 1..Min(Len(v), 10) |-> [index |-> Str(i), title |-> v[i].title]]
            /\ ShownQuestions(ctx) =
                    [i \in 1..Min(Len(q), 10) |-> <<Text("- "), Text(q[i])>>]
            /\ Len(ShownRising(ctx)) = Len(data.trends)
            /\ \A t \in 1..Len(data.trends) :
                    LET r == data.trends[t].rising_queries
                    IN  ShownRising(ctx)[t] =
                            IF r = <<>> THEN <<Text("None")>>
                            ELSE [i \in 1..Min(Len(r), 5) |-> Text(r[i])]

\* C12 witness: a rendered snapshot with more than 10 videos, more than 10
\* questions and a trend record with more than 5 rising queries.
C12_Witness ==
    /\ tasks # <<>>
    /\ Len(data.youtube_videos) > 10
    /\ Len(data.serp_questions) > 10
    /\ Len(data.trends) = 1
    /\ Len(data.trends[1].rising_queries) > 5

\* the phase-1 items that carry a video identifier, in phase-1 order
Candidates(its) == SelectSeq(its, LAMBDA it : it.vid # NoVideoId)

\* both responses have the shape the fetch reads: every candidate has its
\* snippet, the statistics request was answered, and every statistics item
\* returned for a candidate has its "statistics" object
WellShaped(its, stats) ==
    /\ stats.kind # "timeout"
    /\ \A i \in 1..Len(its) :
            its[i].vid # NoVideoId =>
                its[i].snippet = "full" /\ stats.entries[its[i].vid].entry # "nostats"

\* C13 (as claimed): a video fetch whose two requests were answered with
\* well-shaped responses returns exactly one record per phase-1 item that
\* carries a video identifier, in phase-1 order; the record of a candidate
\* with a statistics entry carries that entry's counts, and the record of a
\* candidate with no statistics entry carries view_count = 0 and
\* like_count = 0.
C13_OneRecordPerCandidate ==
    [][\A stats \in StatsResponses :
        (FetchYoutubeStatsWith(stats) /\ WellShaped(search_items, stats)) =>
            LET cands == Candidates(search_items)
                vids == data'.youtube_videos
            IN  /\ Len(vids) = Len(cands)
                /\ \A i \in 1..Len(vids) :
                        LET e == stats.entries[cands[i].vid]
                        IN  /\ vids[i].video_id = cands[i].vid
                            /\ e = RawOk =>
                                    vids[i].view_count = 150000 /\ vids[i].like_count = 1200
                            /\ e.entry = "absent" =>
                                    vids[i].view_count = 0 /\ vids[i].like_count = 0
      ]_vars

\* C14 (as claimed): when a statistics entry of a well-shaped response has an
\* absent or a non-numeric viewCount or likeCount, the candidate's record is
\* returned with that field 0, every count of every record is a non-negative
\* integer, and the other candidates' records are returned with it.
C14_BadCountDefaultsToZero ==
    [][\A stats \in StatsResponses :
        (FetchYoutubeStatsWith(stats) /\ WellShaped(search_items, stats)) =>
            LET cands == Candidates(search_items)
                vids == data'.youtube_videos
            IN  \A i \in 1..Len(cands) :
                    LET e == stats.entries[cands[i].vid]
                    IN  /\ i <= Len(vids)
                        /\ vids[i].video_id = cands[i].vid
                        /\ vids[i].view_count >= 0 /\ vids[i].like_count >= 0
                        /\ (e.viewCount = Missing \/ ~IsIntLiteral(e.viewCount)) =>
                                vids[i].view_count = 0
                        /\ (e.likeCount = Missing \/ ~IsIntLiteral(e.likeCount)) =>
                                vids[i].like_count = 0
      ]_vars

\* C15 (as claimed): a tool run that ended without an upstream answer
\* returns a failure report and lists no data value the upstream did not
\* return.
C15_NoFabricatedData ==
    (tool.pc = "done" /\ tool.failed) =>
        /\ tool.result.error # ""
        /\ Range(tool.result.values) \subseteq Range(tool.upstream)

CollectCalls == <<"CollectedData", "_fetch_youtube", "_fetch_trends", "_fetch_serp">>

\* C16: within one collect_all the snapshot is constructed once and then the
\* video, trends and questions fetches are called in that order, each at most
\* once (so a provider that failed is not called again); when collect_all
\* returns, each has been called exactly once.
C16_ProvidersOnceInOrder ==
    /\ Len(calls) <= Len(CollectCalls)
    /\ calls = SubSeq(CollectCalls, 1, Len(calls))
    /\ Collected => calls = CollectCalls
    /\ \A p \in Providers : Fetched(p) =>
            Cardinality({i \in 1..Len(calls) : calls[i] = "_fetch_" \o p}) = 1

\* C16 witness: collect_all has returned after a video fetch that failed on
\* the network and a trends fetch that found nothing.
C16_Witness ==
    /\ pc = "collected"
    /\ calls = CollectCalls
    /\ outcome["youtube"] = "network"
    /\ outcome["trends"] = "empty"
    /\ outcome["serp"] = "ok"

Count(x, s) == Cardinality({i \in 1..Len(s) : s[i] = x})

\* s and t hold the same elements the same number of times
SameBag(s, t) ==
    /\ Len(s) = Len(t)
    /\ \A x \in Range(s) \cup Range(t) : Count(x, s) = Count(x, t)

\* the errors the fetches of an invocation report, each on its own, put
\* together in the order `order`
OwnErrors(inv, order) == Flatten([i \in 1..Len(order) |-> inv.apart[order[i]].errors])

\* the snapshot the invocation's fetches give when they run one after the
\* other in the order `order`, each against the same upstream answer
SnapshotInOrder(inv, order) ==
    [inv.data EXCEPT !.youtube_videos = inv.apart["youtube"].ret,
                     !.trends = inv.apart["trends"].ret,
                     !.serp_questions = inv.apart["serp"].ret,
                     !.errors = OwnErrors(inv, order)]

C18_InvocationsAreIsolated ==
    \A k \in 1..Len(invs) :
        /\ Deref(invs[k].data) = SnapshotInOrder(invs[k], invs[k].called)
        /\ invs[k].data.topic = InvocationTopic(k)
        /\ \A i \in 1..Len(invs[k].data.trends) :
                invs[k].data.trends[i].keyword = InvocationTopic(k)
        /\ \A j \in 1..Len(invs) : j # k => invs[j].data.errors # invs[k].data.errors

\* C18 witness: two invocations in flight, the first with one fetch done
\* that reported an error, the second with two fetches done, records and no
\* error.
C18_Witness ==
    /\ Len(invs) = 2
    /\ invs[1].pc = "collecting" /\ Len(invs[1].called) = 1
    /\ Len(heap[invs[1].data.errors]) = 1
    /\ invs[2].pc = "collecting" /\ Len(invs[2].called) = 2
    /\ heap[invs[2].data.errors] = <<>>
    /\ invs[2].data.youtube_videos # <<>> /\ invs[2].data.trends # <<>>

\* the positions of the steps in progress
Running == {i \in 1..Len(steps) : steps[i].status = "running"}

FailureKind(msg) ==
    IF msg = "authentication_error: invalid x-api-key" THEN "auth"
    ELSE IF msg = "ANTHROPIC_API_KEY is required" THEN "missing_key"
    ELSE "other"

\* what an error response reports
ReportedKind(r) ==
    IF r.status = 500 THEN "other"
    ELSE IF r.detail = "LLM service authentication failed. Please check ANTHROPIC_API_KEY configuration."
        THEN "auth"
    ELSE "missing_key"

\* C20 (as claimed): when step 1 has succeeded and the backend call of step 2
\* has failed, no later step is started, run returns nothing, and the request
\* ends with an error response of the failure's kind and never with a
\* success response.
C20_StepFailureIsFatal ==
    (Len(steps) >= 2 /\ steps[1].status = "ok" /\ steps[2].status = "failed") =>
        /\ Len(steps) = 2
        /\ pc \in {"run_raised", "responded"}
        /\ ~run_result.returned
        /\ pc = "responded" =>
                /\ ~response.success
                /\ response.status \in {500, 503}
                /\ ReportedKind(response) = FailureKind(exception)

\* the message reports a missing API key
ReportsMissingKey(msg) ==
    Contains(msg, "ANTHROPIC_API_KEY is required") \/ Contains(str_lower(msg), "api key")

\* the message holds one of the authentication markers
HasAuthMarker(msg) ==
    Contains(msg, "authentication_error") \/ Contains(msg, "invalid x-api-key")
        \/ Contains(msg, "401")

\* the response reports an authentication failure
IsAuthReport(r) == r.status = 503 /\ Contains(r.detail, "authentication failed")

\* C21 (as claimed): a crew route answers a generation-backend failure with
\* the authentication failure (503) exactly when the backend rejected the
\* credentials, and every other failure that is not a missing key with the
\* generic 500, whatever text the message holds.
C21_AuthReportedExactlyWhenRejected ==
    (/\ http.pc = "answered"
     /\ http.raised # NoExc
     /\ http.route \in AgentRoutes \cup AnalyticsRoutes) =>
        /\ IsAuthReport(http.response) <=> (FailureKind(http.raised) = "auth")
        /\ (FailureKind(http.raised) = "other" /\ ~ReportsMissingKey(http.raised)) =>
                http.response.status = 500

\* the failures of a route that are neither an authentication nor a
\* configuration failure
GenericFailures(route) ==
    IF route \in InstagramRoutes
        THEN {ServiceRaises(route, q, e) :
                q \in ServiceRequests(route),
                e \in InstagramHTTPErrors \cup InstagramOtherErrors}
    ELSE {m \in RouteFailures : FailureKind(m) = "other" /\ ~ReportsMissingKey(m)}

\* C22 (as claimed): on every route, the response to a failure that is not an
\* authentication/config failure is the response the route gives to any
\* other such failure: it does not depend on the exception's text.
C22_GenericDetailIndependentOfMessage ==
    (/\ http.pc = "answered"
     /\ http.raised \in GenericFailures(http.route)) =>
        \A m \in GenericFailures(http.route) :
            RouteExcept(http.route, m) = http.response

\* C23 (as claimed): with its credential absent, InstagramService is
\* constructed without raising and the route's request does not end in an
\* exception; YouTubeTool run without a key does not raise and returns an
\* empty result with one error string.
C23_AbsentCredentialDegrades ==
    /\ (http.route \in InstagramRoutes /\ ~http.rapidapi_key
            /\ http.pc \notin {"idle", "handling"}) =>
            http.raised = NoExc
    /\ (tool.name = "youtube" /\ ~tool.configured /\ tool.pc # "idle") =>
            /\ tool.pc = "done"
            /\ tool.result.values = <<>>
            /\ tool.result.error # ""

\* C30 (as claimed): an agent route answers a backend failure whose message
\* reports a missing API key, in any letter case, and holds no
\* authentication marker with 503 'LLM API key not configured', never with
\* the generic 500.
C30_MissingKeyReportedAsNotConfigured ==
    (/\ http.pc = "answered"
     /\ http.route \in AgentRoutes
     /\ http.raised # NoExc
     /\ ReportsMissingKey(http.raised)
     /\ ~HasAuthMarker(http.raised)) =>
        http.response =
            HTTPException(503, "LLM API key not configured. Please set ANTHROPIC_API_KEY environment variable.")

\* C24 (as claimed): every call of EngagementAnalyzerTool._run with the same
\* arguments returns the same estimate, whatever the environment variables
\* and the upstream answers were at the time of the call.
C24_EstimateDependsOnArgumentsOnly ==
    tool.name = "engagement" =>
        \A i, j \in 1..Len(tool.returned) : tool.returned[i] = tool.returned[j]

\* C25 (as claimed): when the statistics request of the video fetch is
\* answered with an error payload (no items), _fetch_youtube returns an empty
\* list and appends one error string; it does not return the search's
\* records with counts of zero and no error.
C25_StatsErrorIsProviderFailure ==
    [][\A stats \in StatsResponses :
            (FetchYoutubeStatsWith(stats) /\ stats.kind = "error") =>
                /\ data'.youtube_videos = <<>>
                /\ Len(data'.errors) = Len(data.errors) + 1
      ]_vars

\* the number of record lists of the snapshot that hold a record
NonEmptyLists == Cardinality({p \in Providers : ListOf(p) # <<>>})

\* C26: in every snapshot collect_all has returned, each provider has
\* appended at most one error string and a provider whose record list is not
\* empty has appended none, so the number of non-empty record lists plus
\* the number of errors is at most 3.
C26_ListsAndErrorsAtMostThree ==
    Collected =>
        /\ \A p \in Providers :
                /\ Len(appended[p]) <= 1
                /\ ListOf(p) # <<>> => appended[p] = <<>>
        /\ data.errors = appended["youtube"] \o appended["trends"] \o appended["serp"]
        /\ NonEmptyLists + Len(data.errors) <= 3

\* C26 witness: a returned snapshot with videos, one question and the one
\* error of the trends provider: two lists with records and one error.
C26_Witness ==
    /\ pc = "collected"
    /\ data.youtube_videos # <<>>
    /\ data.trends = <<>> /\ Len(appended["trends"]) = 1
    /\ Len(data.serp_questions) = 1 /\ outcome["serp"] = "ok"
    /\ NonEmptyLists + Len(data.errors) = 3

\* C27: a snapshot collect_all has returned without any record names a
\* cause: has_data() false implies a non-empty errors list, and the failure
\* result of SmartScriptCrew.run never carries an empty errors list.
C27_UnusableSnapshotNamesCause ==
    /\ (Collected /\ ~has_data(data)) => data.errors # <<>>
    /\ (run_result.returned /\ ~run_result.success) => run_result.errors # <<>>

\* C27 witness: run has returned the failure result of a collection in
\* which the video fetch and the questions fetch came back empty without an
\* error, and the only error is that of the trends fetch.
C27_Witness ==
    /\ pc = "run_returned"
    /\ run_result.returned /\ ~run_result.success
    /\ appended["youtube"] = <<>> /\ appended["serp"] = <<>>
    /\ Len(run_result.errors) = 1
    /\ run_result.errors = appended["trends"]

\* invocations j and k have returned, were called with the same topic and
\* got the same upstream answers
SameCollection(j, k) ==
    /\ invs[j].pc = "returned" /\ invs[k].pc = "returned"
    /\ invs[j].data.topic = invs[k].data.topic
    /\ \A p \in Providers : invs[j].apart[p].answer = invs[k].apart[p].answer

\* the rendered context below its header lines
BelowHeader(d) ==
    SubSeq(to_prompt_context(d), Len(HeaderLines(d)) + 1, Len(to_prompt_context(d)))

\* C28: two collect_all calls with the same topic and the same upstream
\* answers return the same videos, trends, questions and errors whatever
\* their platform arguments; the snapshots differ in the platform field
\* only and their rendered contexts in the header lines only.
C28_PlatformDoesNotInfluenceCollection ==
    \A j, k \in 1..Len(invs) :
        SameCollection(j, k) =>
            LET dj == Deref(invs[j].data)
                dk == Deref(invs[k].data)
            IN  /\ dj.youtube_videos = dk.youtube_videos
                /\ dj.trends = dk.trends
                /\ dj.serp_questions = dk.serp_questions
                /\ dj.errors = dk.errors
                /\ [dj EXCEPT !.platform = dk.platform] = dk
                /\ BelowHeader(dj) = BelowHeader(dk)

\* C28 witness: two returned snapshots of the same topic and the same
\* upstream answers, called with different platforms, holding a trend
\* record and the error of an empty video search.
C28_Witness ==
    /\ Len(invs) = 2
    /\ SameCollection(1, 2)
    /\ invs[1].data.platform # invs[2].data.platform
    /\ invs[1].data.trends # <<>>
    /\ invs[1].data.youtube_videos = <<>>
    /\ heap[invs[1].data.errors] # <<>>
    /\ to_prompt_context(Deref(invs[1].data)) # to_prompt_context(Deref(invs[2].data))

\* C29: for every topic, platform and niche, with or without SERP_API_KEY,
\* whatever the trends lookup returns, and on the rule-based path of the
\* except clause too, the list of hashtags _run returns holds between 8 and
\* 15 entries, no two of them the same string.
C29_EightToFifteenDistinctHashtags ==
    (tool.name = "hashtags" /\ tool.pc = "done") =>
        /\ Len(tool.hashtags) >= 8
        /\ Len(tool.hashtags) <= 15
        /\ \A i, j \in 1..Len(tool.hashtags) :
                i # j => tool.hashtags[i] # tool.hashtags[j]

\* C29 witness: a run on the main path with trending hashtags from the
\* lookup, whose list before the cut was longer than 15.
C29_Witness ==
    /\ tool.name = "hashtags" /\ tool.pc = "done"
    /\ ~tool.rule_based
    /\ tool.trending >= 3
    /\ tool.found > 15
    /\ Len(tool.hashtags) = 15

====
